---- MODULE Spec2Model ----
(***************************************************************************)
(* Model of the queue-manager topology reconciler:                         *)
(*   - the desired-state store (internal/repository) and the loader        *)
(*     bootstrap.LoadTopologyFromDB,                                       *)
(*   - the RabbitMQ provider (internal/queue/rabbitmq) in front of a       *)
(*     broker that holds exchanges, queues and bindings,                   *)
(*   - one pass of reconciliation.ReconcileTopology, one action per        *)
(*     store read or provider call,                                        *)
(*   - the periodic tick of cron.Scheduler.Start.                          *)
(***************************************************************************)
EXTENDS Naturals, Sequences, FiniteSets

\* ------------------------------------------------------------------------
\* Bounds of the model
\* ------------------------------------------------------------------------

\* provider calls or store reads that the environment lets fail in one pass
MaxFaults == 1

\* store edits and broker perturbations between the ticks of the control loop
MaxEdits == 2

\* ------------------------------------------------------------------------
\* Names
\* ------------------------------------------------------------------------

DefaultExchange == ""

\* exchanges the broker always holds (RabbitMQ creates them, nobody can delete them)
BrokerSystemExchanges == {DefaultExchange, "amq.t"}

\* exchange names of rows of the store: nothing keeps a row from carrying a reserved name
StoreExchangeNames == {"amq.t", "e1"}

\* exchanges an operator can create on the broker by hand
UserExchangeNames == {"e1"}

QueueNames == {"q1", "q2"}

\* binding triples [queue, exchange, routingKey] of rows of the store
StoreBindingTriples == {<<"q1", "e1", "a:b">>, <<"q1", "e1", "">>, <<"q2", "amq.t", "a:b">>}

\* bindings an operator can create on the broker by hand
BrokerBindingTriples == StoreBindingTriples

\* names whose row of the store can carry a deletion timestamp
SoftDeletableNames == {"e1", "q1"}

\* the characters of every name the model uses (strings.HasPrefix works on them)
Chars(name) ==
    CASE name = "" -> << >>
      [] name = "amq.t" -> <<"a", "m", "q", ".", "t">>
      [] name = "e1" -> <<"e", "1">>
      [] name = "a:b" -> <<"a", ":", "b">>
      [] name = "q1" -> <<"q", "1">>
      [] name = "q2" -> <<"q", "2">>

\* strings.HasPrefix
HasPrefix(s, prefix) ==
    /\ Len(s) >= Len(prefix)
    /\ SubSeq(s, 1, Len(prefix)) = prefix

\* the collation of ORDER BY over the names of the model
NameOrder == <<"", "a:b", "amq.t", "e1", "q1", "q2">>

Rank(name) == CHOOSE i \in 1..Len(NameOrder) : NameOrder[i] = name


\* ------------------------------------------------------------------------
\* The desired-state store: tables of rows, a row is active or soft-deleted
\* ------------------------------------------------------------------------

ExchangeKind(name) == IF name = "amq.t" THEN "topic" ELSE "direct"

ExchangeRowUniverse ==
    { [name |-> n, kind |-> ExchangeKind(n), deleted |-> d] :
        n \in StoreExchangeNames, d \in BOOLEAN }

QueueRowUniverse == { [name |-> n, deleted |-> d] : n \in QueueNames, d \in BOOLEAN }

BindingRowUniverse ==
    { [queue |-> t[1], exchange |-> t[2], key |-> t[3], deleted |-> FALSE] :
        t \in StoreBindingTriples }

\* the schema of migrations: one row per name here (the partial unique indexes
\* allow one active row per name), a deletion timestamp only where the model
\* allows one, and the foreign keys of the bindings table, which a soft-deleted
\* row still satisfies
StoreWellFormed(ex, qs, bs) ==
    /\ \A r1 \in ex, r2 \in ex : r1.name = r2.name => r1 = r2
    /\ \A r1 \in qs, r2 \in qs : r1.name = r2.name => r1 = r2
    /\ \A r \in ex \cup qs : r.deleted => r.name \in SoftDeletableNames
    /\ \A b \in bs :
        /\ \E r \in ex : r.name = b.exchange
        /\ \E r \in qs : r.name = b.queue

\* a sequence of the elements of S in ascending order of key[x], a tuple of ranks
LexLess(a, b) ==
    \E i \in 1..Len(a) :
        /\ a[i] < b[i]
        /\ \A j \in 1..(i - 1) : a[j] = b[j]

RECURSIVE SortedSeq(_, _)
SortedSeq(S, key) ==
    IF S = {} THEN << >>
    ELSE LET first == CHOOSE x \in S : \A y \in S \ {x} : LexLess(key[x], key[y])
         IN  <<first>> \o SortedSeq(S \ {first}, key)

\* Repository.ListExchanges: WHERE deleted_at IS NULL ORDER BY exchange_name
RepoListExchanges(rows) ==
    LET active == { r \in rows : ~r.deleted }
    IN  SortedSeq(active, [r \in active |-> <<Rank(r.name)>>])

\* Repository.ListQueues: WHERE deleted_at IS NULL ORDER BY queue_name
RepoListQueues(rows) ==
    LET active == { r \in rows : ~r.deleted }
    IN  SortedSeq(active, [r \in active |-> <<Rank(r.name)>>])

\* Repository.ListBindings: WHERE deleted_at IS NULL
\* ORDER BY exchange_name, queue_name, routing_key
RepoListBindings(rows) ==
    LET active == { r \in rows : ~r.deleted }
    IN  SortedSeq(active,
            [r \in active |-> <<Rank(r.exchange), Rank(r.queue), Rank(r.key)>>])

Range(seq) == { seq[i] : i \in 1..Len(seq) }

EmptyTopology == [Exchanges |-> << >>, Queues |-> << >>, Bindings |-> << >>]

\* bootstrap.LoadTopologyFromDB when its three reads succeed: Exchanges is the
\* map name -> kind, Queues the names, Bindings the triples [queue, exchange, key]
LoadTopologyFromDB(ex, qs, bs) ==
    LET exs == RepoListExchanges(ex)
        qss == RepoListQueues(qs)
        bss == RepoListBindings(bs)
    IN  [ Exchanges |-> [ n \in { r.name : r \in Range(exs) } |->
                            (CHOOSE r \in Range(exs) : r.name = n).kind ],
          Queues    |-> [ i \in 1..Len(qss) |-> qss[i].name ],
          Bindings  |-> [ i \in 1..Len(bss) |->
                            <<bss[i].queue, bss[i].exchange, bss[i].key>> ] ]


\* ------------------------------------------------------------------------
\* The RabbitMQ provider in front of the broker.  A broker state is a record
\* [ex, qs, bs]: the exchanges (the system ones among them), the queues and the
\* bindings an operator or the service made.  The broker keeps a binding only
\* while its queue and its exchange exist.
\* ------------------------------------------------------------------------

\* isSystemExchange: the default exchange, or a name with the prefix "amq."
isSystemExchange(name) ==
    \/ name = ""
    \/ HasPrefix(Chars(name), <<"a", "m", "q", ".">>)

BrokerWellFormed(b) ==
    /\ BrokerSystemExchanges \subseteq b.ex
    /\ \A t \in b.bs : t[1] \in b.qs /\ t[2] \in b.ex /\ t[2] # DefaultExchange

\* what the management API lists for the bindings of a queue: every queue is
\* also bound to the default exchange under its own name
RawBindings(b, queueName) ==
    { t \in b.bs : t[1] = queueName } \cup {<<queueName, DefaultExchange, queueName>>}

\* ListExchanges without the isSystemExchange filter
ListExchangesUnfiltered(b) == b.ex

\* Provider.ListExchanges: the names of the broker but the system exchanges
ListExchanges(b) == { name \in b.ex : ~isSystemExchange(name) }

\* Provider.ListQueues
ListQueues(b) == b.qs

\* Provider.ListBindings: the bindings of the queue whose source is not empty
ListBindings(b, queueName) == { t \in RawBindings(b, queueName) : t[2] # "" }

\* The outcome of a mutation: [ok, b], ok = FALSE when the call returns an error.

\* Provider.DeclareExchange: redeclaring an exchange that exists changes
\* nothing; the broker refuses the default exchange and refuses to create a
\* name it reserves
DeclareExchange(b, name) ==
    IF name = DefaultExchange THEN [ok |-> FALSE, b |-> b]
    ELSE IF name \in b.ex THEN [ok |-> TRUE, b |-> b]
    ELSE IF isSystemExchange(name) THEN [ok |-> FALSE, b |-> b]
    ELSE [ok |-> TRUE, b |-> [b EXCEPT !.ex = @ \cup {name}]]

\* Provider.DeclareQueue
DeclareQueue(b, name) == [ok |-> TRUE, b |-> [b EXCEPT !.qs = @ \cup {name}]]

\* Provider.BindQueue: the broker refuses a binding whose queue or exchange does
\* not exist, and a binding to the default exchange
BindQueue(b, t) ==
    IF t[1] \in b.qs /\ t[2] \in b.ex /\ t[2] # DefaultExchange
    THEN [ok |-> TRUE, b |-> [b EXCEPT !.bs = @ \cup {t}]]
    ELSE [ok |-> FALSE, b |-> b]

\* Provider.UnbindQueue: removing a binding that is not there is no error
UnbindQueue(b, t) == [ok |-> TRUE, b |-> [b EXCEPT !.bs = @ \ {t}]]

\* What the management API answers a DELETE with: "204" (or "200") when it has
\* removed the resource, "404" when there was nothing of that name, another
\* status when it refuses, and "error" when no answer arrives.
DeleteReplies(exists) ==
    (IF exists THEN {"204", "200"} ELSE {"404"}) \cup {"401", "500", "error"}

\* the delete that reports a missing resource as a failure
DeleteOkStrict(status) == status \in {"204", "200"}

\* Provider.DeleteQueue and Provider.DeleteExchange on the answer: a failed
\* request is an error, 404 is success, any status but 204 and 200 is an error
DeleteOk(status) ==
    IF status = "error" THEN FALSE
    ELSE IF status = "404" THEN TRUE
    ELSE IF status # "204" /\ status # "200" THEN FALSE
    ELSE TRUE

\* Provider.DeleteQueue when the management API answers with status; the
\* bindings of a queue the broker removes go with it
DeleteQueueReply(b, name, status) ==
    [ok |-> DeleteOk(status),
     b  |-> IF status \in {"204", "200"}
            THEN [b EXCEPT !.qs = @ \ {name}, !.bs = { t \in @ : t[1] # name }]
            ELSE b,
     reply |-> status]

\* Provider.DeleteQueue against a management API that serves the request
DeleteQueue(b, name) ==
    DeleteQueueReply(b, name, IF name \in b.qs THEN "204" ELSE "404")

\* Provider.DeleteExchange when the management API answers with status: a
\* system exchange is refused before any request; the bindings of an exchange
\* the broker removes go with it
DeleteExchangeReply(b, name, status) ==
    IF isSystemExchange(name) THEN [ok |-> FALSE, b |-> b, reply |-> "none"]
    ELSE [ok |-> DeleteOk(status),
          b  |-> IF status \in {"204", "200"}
                 THEN [b EXCEPT !.ex = @ \ {name}, !.bs = { t \in @ : t[2] # name }]
                 ELSE b,
          reply |-> status]

\* Provider.DeleteExchange against a management API that serves the request
DeleteExchange(b, name) ==
    DeleteExchangeReply(b, name, IF name \in b.ex THEN "204" ELSE "404")


\* ------------------------------------------------------------------------
\* State
\* ------------------------------------------------------------------------

VARIABLES
    exchangeRows,       \* table queue_manager.exchanges
    queueRows,          \* table queue_manager.queues
    bindingRows,        \* table queue_manager.bindings
    broker,             \* the broker behind the provider: [ex, qs, bs]
    connected,          \* Provider.conn is set and open
    pc,                 \* where the pass of ReconcileTopology stands
    origin,             \* who called ReconcileTopology: "sync" or "tick"
    dryRun,             \* the dryRun argument of the pass
    expected,           \* the topology loaded from the store
    actualExchanges,    \* the snapshot: result of ListExchanges
    actualQueues,       \* the snapshot: result of ListQueues
    actualBindingsMap,  \* the snapshot: queue -> bindings, for the queues listed
    todo,               \* what is left of the slice the current loop ranges over
    rem,                \* what is left of the map the current loop ranges over
    last,               \* the binding the last loop over actualBindingsMap visited
    result,             \* the ReconciliationResult of the pass
    err,                \* the Go error the pass returns: "nil" or "load"
    calls,              \* the provider calls of the pass, in order
    faults,             \* calls and reads the environment made fail in this pass
    prev,               \* how the pass or the tick before this one ended
    edits,              \* store edits and broker perturbations so far
    mainPc,             \* where main() is: "connect", "sleep", "declare",
                        \* "schedule", "serve", "serving" or "exited"; "stopped"
                        \* and "closed" once the owner has stopped the scheduler
    attempt,            \* the calls of Connect the startup loop has made
    retryDelay,         \* the local retryDelay of main(), in seconds
    waits,              \* the seconds main() has slept, one entry per Sleep
    mainCalls,          \* what main() has called to declare the topology: the
                        \* read of the store and the provider calls, with
                        \* their outcomes
    other,              \* the pass of another goroutine, between two of its steps
    cancelled,          \* the step the /sync pass was in when the timeout of its
                        \* request fired, "none" before
    sessions,           \* the AMQP connections this provider has open at the broker
    reply               \* the answer of the management API to the last direct
                        \* call of a delete: the HTTP status, or "none"

storeVars == <<exchangeRows, queueRows, bindingRows>>

passVars == <<pc, origin, dryRun, expected, actualExchanges, actualQueues,
              actualBindingsMap, todo, rem, last, result, err, calls, faults>>

vars == <<exchangeRows, queueRows, bindingRows, broker, connected, pc, origin,
          dryRun, expected, actualExchanges, actualQueues, actualBindingsMap,
          todo, rem, last, result, err, calls, faults, prev, edits,
          mainPc, attempt, retryDelay, waits, mainCalls, other, cancelled,
          sessions, reply>>

mainVars == <<mainPc, attempt, retryDelay, waits, mainCalls>>

sideVars == <<other, cancelled, sessions, reply>>

\* main(): maxRetries, the first retryDelay and its cap
MaxRetries == 10
FirstRetryDelay == 2
RetryDelayCap == 64

\* main() has started the scheduler and the HTTP server with the provider
\* connected at its first attempt
MainServing ==
    /\ mainPc = "serving"
    /\ attempt = 1
    /\ retryDelay = FirstRetryDelay
    /\ waits = << >>
    /\ mainCalls = {}

\* the result ReconcileTopology starts from
EmptyResult ==
    [ CreatedExchanges |-> << >>, CreatedQueues |-> << >>, CreatedBindings |-> << >>,
      DeletedExchanges |-> << >>, DeletedQueues |-> << >>, DeletedBindings |-> << >>,
      Errors |-> << >> ]

NoBinding == << >>

\* no pass is running
PassIdle ==
    /\ pc = "idle"
    /\ origin = "none"
    /\ dryRun = FALSE
    /\ expected = EmptyTopology
    /\ actualExchanges = << >>
    /\ actualQueues = << >>
    /\ actualBindingsMap = << >>
    /\ todo = << >>
    /\ rem = {}
    /\ last = NoBinding
    /\ result = EmptyResult
    /\ err = "nil"
    /\ calls = << >>
    /\ faults = 0

\* the local state of a pass, as one value
PassState ==
    [ pc |-> pc, origin |-> origin, dryRun |-> dryRun, expected |-> expected,
      actualExchanges |-> actualExchanges, actualQueues |-> actualQueues,
      actualBindingsMap |-> actualBindingsMap, todo |-> todo, rem |-> rem,
      last |-> last, result |-> result, err |-> err, calls |-> calls,
      faults |-> faults ]

\* the local state of a goroutine that runs no pass
NoPass ==
    [ pc |-> "idle", origin |-> "none", dryRun |-> FALSE, expected |-> EmptyTopology,
      actualExchanges |-> << >>, actualQueues |-> << >>,
      actualBindingsMap |-> << >>, todo |-> << >>, rem |-> {},
      last |-> NoBinding, result |-> EmptyResult, err |-> "nil", calls |-> << >>,
      faults |-> 0 ]

\* no second goroutine runs a pass, no request has timed out, the provider
\* holds the one connection it has when it is connected, nothing was deleted
\* by a direct call
SideQuiet ==
    /\ other = NoPass
    /\ cancelled = "none"
    /\ sessions = (IF connected THEN 1 ELSE 0)
    /\ reply = "none"

BrokerUniverse ==
    { b \in [ ex : { BrokerSystemExchanges \cup u : u \in SUBSET UserExchangeNames },
              qs : SUBSET QueueNames,
              bs : SUBSET BrokerBindingTriples ] : BrokerWellFormed(b) }

\* any store the schema allows, any broker, a connected provider, no pass running
Init ==
    /\ exchangeRows \in SUBSET ExchangeRowUniverse
    /\ queueRows \in SUBSET QueueRowUniverse
    /\ bindingRows \in SUBSET BindingRowUniverse
    /\ StoreWellFormed(exchangeRows, queueRows, bindingRows)
    /\ broker \in BrokerUniverse
    /\ connected = TRUE
    /\ PassIdle
    /\ prev = "none"
    /\ edits = 0
    /\ MainServing
    /\ SideQuiet


\* ------------------------------------------------------------------------
\* One pass of ReconcileTopology
\* ------------------------------------------------------------------------

\* the sequences that enumerate the set S once each
Perms(S) == { f \in [1..Cardinality(S) -> S] : Range(f) = S }

\* the environment may let one more call or read of this pass fail; the faults
\* of the passes of the control loop count as perturbations, which are finite
CanFault ==
    /\ faults < MaxFaults
    /\ origin = "tick" => edits + faults < MaxEdits

\* Provider.channel: a call over AMQP fails when there is no open connection
Channel(eff) == IF connected THEN eff ELSE [ok |-> FALSE, b |-> broker]

Call(op, arg, durable, ok) == [op |-> op, arg |-> arg, durable |-> durable, ok |-> ok]

ErrorEntry(op, arg) == [op |-> op, arg |-> arg]

\* Apply without the "if !dryRun" around the call
ApplyIgnoringDryRun(op, arg, durable, eff, field, item) ==
    \E injected \in (IF CanFault /\ eff.ok THEN BOOLEAN ELSE {FALSE}) :
        LET out == IF injected THEN [ok |-> FALSE, b |-> broker] ELSE eff
        IN  /\ broker' = out.b
            /\ calls' = Append(calls, Call(op, arg, durable, out.ok))
            /\ faults' = IF injected THEN faults + 1 ELSE faults
            /\ result' =
                 IF out.ok
                 THEN [result EXCEPT ![field] = Append(@, item)]
                 ELSE [result EXCEPT !.Errors = Append(@, ErrorEntry(op, arg))]

\* Apply that records the item whether or not the call succeeded and keeps no
\* error entry
ApplyRecordingFailures(op, arg, durable, eff, field, item) ==
    IF dryRun
    THEN /\ result' = [result EXCEPT ![field] = Append(@, item)]
         /\ UNCHANGED <<broker, calls, faults>>
    ELSE \E injected \in (IF CanFault /\ eff.ok THEN BOOLEAN ELSE {FALSE}) :
            LET out == IF injected THEN [ok |-> FALSE, b |-> broker] ELSE eff
            IN  /\ broker' = out.b
                /\ calls' = Append(calls, Call(op, arg, durable, out.ok))
                /\ faults' = IF injected THEN faults + 1 ELSE faults
                /\ result' = [result EXCEPT ![field] = Append(@, item)]

\* Apply that logs a failed call and leaves result.Errors alone
ApplyDroppingFailures(op, arg, durable, eff, field, item) ==
    IF dryRun
    THEN /\ result' = [result EXCEPT ![field] = Append(@, item)]
         /\ UNCHANGED <<broker, calls, faults>>
    ELSE \E injected \in (IF CanFault /\ eff.ok THEN BOOLEAN ELSE {FALSE}) :
            LET out == IF injected THEN [ok |-> FALSE, b |-> broker] ELSE eff
            IN  /\ broker' = out.b
                /\ calls' = Append(calls, Call(op, arg, durable, out.ok))
                /\ faults' = IF injected THEN faults + 1 ELSE faults
                /\ result' =
                     IF out.ok
                     THEN [result EXCEPT ![field] = Append(@, item)]
                     ELSE result

\* the body every one of the six diff loops runs for an item it has to act on:
\* in a dry run the item is recorded and no call is made; otherwise the call is
\* made, and the item is recorded on success, an error entry on failure
Apply(op, arg, durable, eff, field, item) ==
    IF dryRun
    THEN /\ result' = [result EXCEPT ![field] = Append(@, item)]
         /\ UNCHANGED <<broker, calls, faults>>
    ELSE \E injected \in (IF CanFault /\ eff.ok THEN BOOLEAN ELSE {FALSE}) :
            LET out == IF injected THEN [ok |-> FALSE, b |-> broker] ELSE eff
            IN  /\ broker' = out.b
                /\ calls' = Append(calls, Call(op, arg, durable, out.ok))
                /\ faults' = IF injected THEN faults + 1 ELSE faults
                /\ result' =
                     IF out.ok
                     THEN [result EXCEPT ![field] = Append(@, item)]
                     ELSE [result EXCEPT !.Errors = Append(@, ErrorEntry(op, arg))]

\* syncTopology (POST /sync): calls ReconcileTopology with the dryRun of the query
Sync(d) ==
    /\ mainPc = "serving"
    /\ pc = "idle"
    /\ pc' = "load"
    /\ origin' = "sync"
    /\ dryRun' = d
    /\ UNCHANGED <<storeVars, broker, connected, expected, actualExchanges,
                   actualQueues, actualBindingsMap, todo, rem, last, result, err,
                   calls, faults, prev, edits>>
    /\ UNCHANGED <<mainVars, sideVars>>

\* Load without the return after the failed read: the pass goes on with the
\* zero topology
LoadWithoutReturn ==
    /\ pc = "load"
    /\ \E failed \in (IF CanFault THEN BOOLEAN ELSE {FALSE}) :
        IF failed
        THEN /\ err' = "load"
             /\ pc' = "listEx"
             /\ faults' = faults + 1
             /\ UNCHANGED expected
        ELSE /\ expected' = LoadTopologyFromDB(exchangeRows, queueRows, bindingRows)
             /\ pc' = "listEx"
             /\ UNCHANGED <<err, faults>>
    /\ UNCHANGED <<storeVars, broker, connected, origin, dryRun, actualExchanges,
                   actualQueues, actualBindingsMap, todo, rem, last, result,
                   calls, prev, edits>>
    /\ UNCHANGED <<mainVars, sideVars>>

\* ReconcileTopology, "Load expected topology from database": a failed read of
\* the store ends the pass with the empty result and an error
Load ==
    /\ pc = "load"
    /\ \E failed \in (IF CanFault THEN BOOLEAN ELSE {FALSE}) :
        IF failed
        THEN /\ err' = "load"
             /\ pc' = "done"
             /\ faults' = faults + 1
             /\ UNCHANGED expected
        ELSE /\ expected' = LoadTopologyFromDB(exchangeRows, queueRows, bindingRows)
             /\ pc' = "listEx"
             /\ UNCHANGED <<err, faults>>
    /\ UNCHANGED <<storeVars, broker, connected, origin, dryRun, actualExchanges,
                   actualQueues, actualBindingsMap, todo, rem, last, result,
                   calls, prev, edits>>
    /\ UNCHANGED <<mainVars, sideVars>>

\* SnapshotExchanges that gives the pass up when the read fails
SnapshotExchangesAborting ==
    /\ pc = "listEx"
    /\ \E failed \in (IF CanFault THEN BOOLEAN ELSE {FALSE}) :
        /\ calls' = Append(calls, Call("ListExchanges", << >>, FALSE, ~failed))
        /\ faults' = IF failed THEN faults + 1 ELSE faults
        /\ IF failed
           THEN /\ actualExchanges' = << >>
                /\ result' = [result EXCEPT
                                !.Errors = Append(@, ErrorEntry("ListExchanges", << >>))]
                /\ pc' = "done"
           ELSE /\ actualExchanges' \in Perms(ListExchanges(broker))
                /\ pc' = "listQ"
                /\ UNCHANGED result
    /\ UNCHANGED <<storeVars, broker, connected, origin, dryRun, expected,
                   actualQueues, actualBindingsMap, todo, rem, last, err, prev, edits>>
    /\ UNCHANGED <<mainVars, sideVars>>

\* ReconcileTopology, qp.ListExchanges(): on error the list is empty
SnapshotExchanges ==
    /\ pc = "listEx"
    /\ \E failed \in (IF CanFault THEN BOOLEAN ELSE {FALSE}) :
        /\ calls' = Append(calls, Call("ListExchanges", << >>, FALSE, ~failed))
        /\ faults' = IF failed THEN faults + 1 ELSE faults
        /\ IF failed
           THEN /\ actualExchanges' = << >>
                /\ result' = [result EXCEPT
                                !.Errors = Append(@, ErrorEntry("ListExchanges", << >>))]
           ELSE /\ actualExchanges' \in Perms(ListExchanges(broker))
                /\ UNCHANGED result
    /\ pc' = "listQ"
    /\ UNCHANGED <<storeVars, broker, connected, origin, dryRun, expected,
                   actualQueues, actualBindingsMap, todo, rem, last, err, prev, edits>>
    /\ UNCHANGED <<mainVars, sideVars>>

\* SnapshotQueues that logs a failed ListQueues and leaves result.Errors alone
SnapshotQueuesUnrecorded ==
    /\ pc = "listQ"
    /\ \E failed \in (IF CanFault THEN BOOLEAN ELSE {FALSE}) :
        /\ calls' = Append(calls, Call("ListQueues", << >>, FALSE, ~failed))
        /\ faults' = IF failed THEN faults + 1 ELSE faults
        /\ IF failed
           THEN /\ actualQueues' = << >>
                /\ UNCHANGED result
           ELSE /\ actualQueues' \in Perms(ListQueues(broker))
                /\ UNCHANGED result
    /\ pc' = "listB"
    /\ todo' = actualQueues'
    /\ UNCHANGED <<storeVars, broker, connected, origin, dryRun, expected,
                   actualExchanges, actualBindingsMap, rem, last, err, prev, edits>>
    /\ UNCHANGED <<mainVars, sideVars>>

\* ReconcileTopology, qp.ListQueues(): on error the list is empty
SnapshotQueues ==
    /\ pc = "listQ"
    /\ \E failed \in (IF CanFault THEN BOOLEAN ELSE {FALSE}) :
        /\ calls' = Append(calls, Call("ListQueues", << >>, FALSE, ~failed))
        /\ faults' = IF failed THEN faults + 1 ELSE faults
        /\ IF failed
           THEN /\ actualQueues' = << >>
                /\ result' = [result EXCEPT
                                !.Errors = Append(@, ErrorEntry("ListQueues", << >>))]
           ELSE /\ actualQueues' \in Perms(ListQueues(broker))
                /\ UNCHANGED result
    /\ pc' = "listB"
    /\ todo' = actualQueues'
    /\ UNCHANGED <<storeVars, broker, connected, origin, dryRun, expected,
                   actualExchanges, actualBindingsMap, rem, last, err, prev, edits>>
    /\ UNCHANGED <<mainVars, sideVars>>


\* MissingExchanges that declares every desired exchange again
EveryDesiredExchange(exp, actEx) == DOMAIN exp.Exchanges

\* the desired exchanges that the snapshot lacks (!actualExchangesMap[name])
MissingExchanges(exp, actEx) ==
    { name \in DOMAIN exp.Exchanges : name \notin Range(actEx) }

\* ExtraExchanges that deletes nothing while no exchange is desired
ExtraExchangesUnlessNoneDesired(exp, actEx) ==
    LET Extra(name) == DOMAIN exp.Exchanges # {} /\ name \notin DOMAIN exp.Exchanges
    IN  SelectSeq(actEx, Extra)

\* ExtraExchanges that takes for desired the exchanges the desired bindings name
ExtraExchangesUnbound(exp, actEx) ==
    LET Extra(name) == \A i \in 1..Len(exp.Bindings) : exp.Bindings[i][2] # name
    IN  SelectSeq(actEx, Extra)

\* the exchanges of the snapshot that are not desired, in snapshot order
ExtraExchanges(exp, actEx) ==
    LET Extra(name) == name \notin DOMAIN exp.Exchanges
    IN  SelectSeq(actEx, Extra)

\* MissingQueues that declares every desired queue again
EveryDesiredQueue(exp, actQ) == exp.Queues

\* the desired queues that the snapshot lacks, in the order of the loader
MissingQueues(exp, actQ) ==
    LET Missing(name) == name \notin Range(actQ)
    IN  SelectSeq(exp.Queues, Missing)

\* the queues of the snapshot that are not desired (!expectedQueuesMap[name])
ExtraQueues(exp, actQ) ==
    LET Extra(name) == name \notin Range(exp.Queues)
    IN  SelectSeq(actQ, Extra)

\* BindingExists that stops at the exchange and never looks at the routing key
BindingExistsAnyKey(map, t) ==
    t[1] \in DOMAIN map /\ \E u \in map[t[1]] : u[2] = t[2]

\* "Check if binding exists": queue, then exchange, then routing key
BindingExists(map, t) == t[1] \in DOMAIN map /\ t \in map[t[1]]

\* MissingBindings that passes over a binding whose queue or exchange is not
\* desired
MissingBindingsValidated(exp, map) ==
    LET Missing(t) == /\ ~BindingExists(map, t)
                      /\ t[1] \in Range(exp.Queues)
                      /\ t[2] \in DOMAIN exp.Exchanges
    IN  SelectSeq(exp.Bindings, Missing)

\* the desired bindings that the snapshot lacks, in the order of the loader
MissingBindings(exp, map) ==
    LET Missing(t) == ~BindingExists(map, t)
    IN  SelectSeq(exp.Bindings, Missing)

\* BindingExpected that stops at the exchange and never looks at the routing key
BindingExpectedAnyKey(exp, t) ==
    \E u \in Range(exp.Bindings) : u[1] = t[1] /\ u[2] = t[2]

\* "Check if this binding is expected"
BindingExpected(exp, t) == t \in Range(exp.Bindings)

\* ExtraBindings without "Only check bindings for queues we expect"
ExtraBindingsOfEveryQueue(exp, map) ==
    { t \in UNION { map[q] : q \in DOMAIN map } : ~BindingExpected(exp, t) }

\* ExtraBindings that also skips a binding whose exchange is not expected
ExtraBindingsOfKeptExchanges(exp, map) ==
    { t \in UNION { map[q] : q \in DOMAIN map } :
        /\ t[1] \in Range(exp.Queues)
        /\ t[2] \in DOMAIN exp.Exchanges
        /\ ~BindingExpected(exp, t) }

\* ExtraBindings that ranges over the desired bindings the snapshot lacks, as
\* the loop of step 6 does
ExtraBindingsAsMissing(exp, map) ==
    { t \in Range(exp.Bindings) : ~BindingExists(map, t) }

\* the bindings of the snapshot on desired queues that are not desired: the
\* loop skips a queue that is not expected ("bindings will go with it")
ExtraBindings(exp, map) ==
    { t \in UNION { map[q] : q \in DOMAIN map } :
        /\ t[1] \in Range(exp.Queues)
        /\ ~BindingExpected(exp, t) }

\* SnapshotBindings that reads the bindings of a queue again after a failed read
SnapshotBindingsRetrying ==
    /\ pc = "listB"
    /\ IF todo = << >>
       THEN /\ pc' = "createEx"
            /\ rem' = MissingExchanges(expected, actualExchanges)
            /\ UNCHANGED <<todo, actualBindingsMap, result, calls, faults>>
       ELSE LET q == Head(todo)
            IN  /\ \E failed \in (IF CanFault THEN BOOLEAN ELSE {q \notin broker.qs}) :
                    LET bad == failed \/ q \notin broker.qs
                    IN  /\ calls' = Append(calls, Call("ListBindings", <<q>>, FALSE, ~bad))
                        /\ faults' = IF failed /\ q \in broker.qs THEN faults + 1 ELSE faults
                        /\ IF bad
                           THEN /\ result' = [result EXCEPT
                                     !.Errors = Append(@, ErrorEntry("ListBindings", <<q>>))]
                                /\ UNCHANGED <<actualBindingsMap, todo>>
                           ELSE /\ actualBindingsMap' =
                                     [ x \in DOMAIN actualBindingsMap \cup {q} |->
                                         IF x = q THEN ListBindings(broker, q)
                                         ELSE actualBindingsMap[x] ]
                                /\ todo' = Tail(todo)
                                /\ UNCHANGED result
                /\ UNCHANGED <<pc, rem>>
    /\ UNCHANGED <<storeVars, broker, connected, origin, dryRun, expected,
                   actualExchanges, actualQueues, last, err, prev, edits>>
    /\ UNCHANGED <<mainVars, sideVars>>


\* ReconcileTopology, "Build map of actual bindings": ListBindings for each
\* queue of the snapshot; a queue whose call fails gets no entry in the map
SnapshotBindings ==
    /\ pc = "listB"
    /\ IF todo = << >>
       THEN /\ pc' = "createEx"
            /\ rem' = MissingExchanges(expected, actualExchanges)
            /\ UNCHANGED <<todo, actualBindingsMap, result, calls, faults>>
       ELSE LET q == Head(todo)
            IN  /\ todo' = Tail(todo)
                /\ \E failed \in (IF CanFault THEN BOOLEAN ELSE {q \notin broker.qs}) :
                    LET bad == failed \/ q \notin broker.qs
                    IN  /\ calls' = Append(calls, Call("ListBindings", <<q>>, FALSE, ~bad))
                        /\ faults' = IF failed /\ q \in broker.qs THEN faults + 1 ELSE faults
                        /\ IF bad
                           THEN /\ result' = [result EXCEPT
                                     !.Errors = Append(@, ErrorEntry("ListBindings", <<q>>))]
                                /\ UNCHANGED actualBindingsMap
                           ELSE /\ actualBindingsMap' =
                                     [ x \in DOMAIN actualBindingsMap \cup {q} |->
                                         IF x = q THEN ListBindings(broker, q)
                                         ELSE actualBindingsMap[x] ]
                                /\ UNCHANGED result
                /\ UNCHANGED <<pc, rem>>
    /\ UNCHANGED <<storeVars, broker, connected, origin, dryRun, expected,
                   actualExchanges, actualQueues, last, err, prev, edits>>
    /\ UNCHANGED <<mainVars, sideVars>>

\* "Reconcile exchanges: create missing ones": ranges over the map expected.Exchanges
CreateExchanges ==
    /\ pc = "createEx"
    /\ IF rem = {}
       THEN /\ pc' = "deleteEx"
            /\ todo' = ExtraExchanges(expected, actualExchanges)
            /\ UNCHANGED <<rem, broker, result, calls, faults>>
       ELSE \E name \in rem :
            /\ rem' = rem \ {name}
            /\ Apply("DeclareExchange", <<name, expected.Exchanges[name]>>, TRUE,
                     Channel(DeclareExchange(broker, name)), "CreatedExchanges", name)
            /\ UNCHANGED <<pc, todo>>
    /\ UNCHANGED <<storeVars, connected, origin, dryRun, expected, actualExchanges,
                   actualQueues, actualBindingsMap, last, err, prev, edits>>
    /\ UNCHANGED <<mainVars, sideVars>>

\* "Reconcile exchanges: delete extra ones": ranges over actualExchanges
DeleteExchanges ==
    /\ pc = "deleteEx"
    /\ IF todo = << >>
       THEN /\ pc' = "createQ"
            /\ todo' = MissingQueues(expected, actualQueues)
            /\ UNCHANGED <<broker, result, calls, faults>>
       ELSE /\ todo' = Tail(todo)
            /\ Apply("DeleteExchange", <<Head(todo)>>, FALSE,
                     DeleteExchange(broker, Head(todo)), "DeletedExchanges", Head(todo))
            /\ UNCHANGED pc
    /\ UNCHANGED <<storeVars, connected, origin, dryRun, expected, actualExchanges,
                   actualQueues, actualBindingsMap, rem, last, err, prev, edits>>
    /\ UNCHANGED <<mainVars, sideVars>>

\* CreateQueues that declares the queue with durable = false
CreateQueuesNotDurable ==
    /\ pc = "createQ"
    /\ IF todo = << >>
       THEN /\ pc' = "deleteQ"
            /\ todo' = ExtraQueues(expected, actualQueues)
            /\ UNCHANGED <<broker, result, calls, faults>>
       ELSE /\ todo' = Tail(todo)
            /\ Apply("DeclareQueue", <<Head(todo)>>, FALSE,
                     Channel(DeclareQueue(broker, Head(todo))), "CreatedQueues", Head(todo))
            /\ UNCHANGED pc
    /\ UNCHANGED <<storeVars, connected, origin, dryRun, expected, actualExchanges,
                   actualQueues, actualBindingsMap, rem, last, err, prev, edits>>
    /\ UNCHANGED <<mainVars, sideVars>>

\* "Reconcile queues: create missing ones": ranges over expected.Queues
CreateQueues ==
    /\ pc = "createQ"
    /\ IF todo = << >>
       THEN /\ pc' = "deleteQ"
            /\ todo' = ExtraQueues(expected, actualQueues)
            /\ UNCHANGED <<broker, result, calls, faults>>
       ELSE /\ todo' = Tail(todo)
            /\ Apply("DeclareQueue", <<Head(todo)>>, TRUE,
                     Channel(DeclareQueue(broker, Head(todo))), "CreatedQueues", Head(todo))
            /\ UNCHANGED pc
    /\ UNCHANGED <<storeVars, connected, origin, dryRun, expected, actualExchanges,
                   actualQueues, actualBindingsMap, rem, last, err, prev, edits>>
    /\ UNCHANGED <<mainVars, sideVars>>

\* DeleteQueues that unbinds the bindings of an extra queue before it deletes
\* the queue
DeleteQueuesUnbindingFirst ==
    /\ pc = "deleteQ"
    /\ IF todo = << >>
       THEN /\ pc' = "createB"
            /\ todo' = MissingBindings(expected, actualBindingsMap)
            /\ UNCHANGED <<broker, result, calls, faults>>
       ELSE LET q == Head(todo)
                seen == { calls[i].arg : i \in { j \in 1..Len(calls) :
                                                   calls[j].op = "UnbindQueue" } }
                            \cup Range(result.DeletedBindings)
                pending == { t \in (IF q \in DOMAIN actualBindingsMap
                                    THEN actualBindingsMap[q] ELSE {}) : t \notin seen }
            IN  IF pending # {}
                THEN /\ \E t \in pending :
                          Apply("UnbindQueue", t, FALSE,
                                Channel(UnbindQueue(broker, t)), "DeletedBindings", t)
                     /\ UNCHANGED <<pc, todo>>
                ELSE /\ todo' = Tail(todo)
                     /\ Apply("DeleteQueue", <<q>>, FALSE,
                              DeleteQueue(broker, q), "DeletedQueues", q)
                     /\ UNCHANGED pc
    /\ UNCHANGED <<storeVars, connected, origin, dryRun, expected, actualExchanges,
                   actualQueues, actualBindingsMap, rem, last, err, prev, edits>>
    /\ UNCHANGED <<mainVars, sideVars>>

\* "Reconcile queues: delete extra ones": ranges over actualQueues
DeleteQueues ==
    /\ pc = "deleteQ"
    /\ IF todo = << >>
       THEN /\ pc' = "createB"
            /\ todo' = MissingBindings(expected, actualBindingsMap)
            /\ UNCHANGED <<broker, result, calls, faults>>
       ELSE /\ todo' = Tail(todo)
            /\ Apply("DeleteQueue", <<Head(todo)>>, FALSE,
                     DeleteQueue(broker, Head(todo)), "DeletedQueues", Head(todo))
            /\ UNCHANGED pc
    /\ UNCHANGED <<storeVars, connected, origin, dryRun, expected, actualExchanges,
                   actualQueues, actualBindingsMap, rem, last, err, prev, edits>>
    /\ UNCHANGED <<mainVars, sideVars>>

\* "Reconcile bindings: create missing ones": ranges over expected.Bindings
CreateBindings ==
    /\ pc = "createB"
    /\ IF todo = << >>
       THEN /\ pc' = "deleteB"
            /\ rem' = ExtraBindings(expected, actualBindingsMap)
            /\ UNCHANGED <<todo, broker, result, calls, faults>>
       ELSE /\ todo' = Tail(todo)
            /\ Apply("BindQueue", Head(todo), FALSE,
                     Channel(BindQueue(broker, Head(todo))), "CreatedBindings", Head(todo))
            /\ UNCHANGED <<pc, rem>>
    /\ UNCHANGED <<storeVars, connected, origin, dryRun, expected, actualExchanges,
                   actualQueues, actualBindingsMap, last, err, prev, edits>>
    /\ UNCHANGED <<mainVars, sideVars>>

\* the bindings a loop over the nested map can visit next: it finishes the
\* routing keys of an exchange, then the exchanges of a queue, before it moves on
NextInMap(left, visited) ==
    LET sameExchange == { t \in left : visited # NoBinding /\ t[1] = visited[1]
                                          /\ t[2] = visited[2] }
        sameQueue    == { t \in left : visited # NoBinding /\ t[1] = visited[1] }
    IN  IF sameExchange # {} THEN sameExchange
        ELSE IF sameQueue # {} THEN sameQueue
        ELSE left

\* "Reconcile bindings: delete extra ones": ranges over actualBindingsMap
DeleteBindings ==
    /\ pc = "deleteB"
    /\ IF rem = {}
       THEN /\ pc' = "done"
            /\ last' = NoBinding
            /\ UNCHANGED <<rem, broker, result, calls, faults>>
       ELSE \E t \in NextInMap(rem, last) :
            /\ rem' = rem \ {t}
            /\ last' = t
            /\ Apply("UnbindQueue", t, FALSE,
                     Channel(UnbindQueue(broker, t)), "DeletedBindings", t)
            /\ UNCHANGED pc
    /\ UNCHANGED <<storeVars, connected, origin, dryRun, expected, actualExchanges,
                   actualQueues, actualBindingsMap, todo, err, prev, edits>>
    /\ UNCHANGED <<mainVars, sideVars>>

\* every provider call of the pass returned without error
AllCallsOk == \A i \in 1..Len(calls) : calls[i].ok

\* how a finished pass is remembered
Outcome ==
    IF err # "nil" \/ ~AllCallsOk THEN "failed"
    ELSE IF dryRun THEN "dry"
    ELSE "clean"

\* ReconcileTopology returns (result, err) to its caller
Return ==
    /\ pc = "done"
    /\ prev' = Outcome
    /\ pc' = "idle"
    /\ origin' = "none"
    /\ dryRun' = FALSE
    /\ expected' = EmptyTopology
    /\ actualExchanges' = << >>
    /\ actualQueues' = << >>
    /\ actualBindingsMap' = << >>
    /\ todo' = << >>
    /\ rem' = {}
    /\ last' = NoBinding
    /\ result' = EmptyResult
    /\ err' = "nil"
    /\ calls' = << >>
    /\ faults' = 0
    /\ edits' = IF origin = "tick" THEN edits + faults ELSE edits
    /\ cancelled' = IF origin = "sync" THEN "none" ELSE cancelled
    /\ UNCHANGED <<storeVars, broker, connected>>
    /\ UNCHANGED <<mainVars, other, sessions, reply>>

PassStep ==
    \/ Load
    \/ SnapshotExchanges
    \/ SnapshotQueues
    \/ SnapshotBindings
    \/ CreateExchanges
    \/ DeleteExchanges
    \/ CreateQueues
    \/ DeleteQueues
    \/ CreateBindings
    \/ DeleteBindings
    \/ Return

Next ==
    \/ \E d \in BOOLEAN : Sync(d)
    \/ PassStep

Spec == Init /\ [][Next]_vars


\* ------------------------------------------------------------------------
\* The engine over a repository whose bindings table lacks pk_bindings: the
\* query of Repository.ListBindings has no DISTINCT, so two active rows with
\* one triple both reach expected.Bindings
\* ------------------------------------------------------------------------

\* the sequence with every element that is in dup given twice, side by side as
\* ORDER BY leaves equal rows
RECURSIVE Doubled(_, _)
Doubled(seq, dup) ==
    IF seq = << >> THEN << >>
    ELSE (IF Head(seq) \in dup THEN <<Head(seq), Head(seq)>> ELSE <<Head(seq)>>)
         \o Doubled(Tail(seq), dup)

\* ReconcileTopology, "Load expected topology from database", over such a table
LoadDuplicateRows ==
    /\ pc = "load"
    /\ \E failed \in (IF CanFault THEN BOOLEAN ELSE {FALSE}) :
        IF failed
        THEN /\ err' = "load"
             /\ pc' = "done"
             /\ faults' = faults + 1
             /\ UNCHANGED expected
        ELSE /\ LET top == LoadTopologyFromDB(exchangeRows, queueRows, bindingRows)
                IN  \E dup \in SUBSET Range(top.Bindings) :
                        expected' = [top EXCEPT !.Bindings = Doubled(@, dup)]
             /\ pc' = "listEx"
             /\ UNCHANGED <<err, faults>>
    /\ UNCHANGED <<storeVars, broker, connected, origin, dryRun, actualExchanges,
                   actualQueues, actualBindingsMap, todo, rem, last, result,
                   calls, prev, edits>>
    /\ UNCHANGED <<mainVars, sideVars>>

EngineNext ==
    \/ \E d \in BOOLEAN : Sync(d)
    \/ LoadDuplicateRows
    \/ SnapshotExchanges
    \/ SnapshotQueues
    \/ SnapshotBindings
    \/ CreateExchanges
    \/ DeleteExchanges
    \/ CreateQueues
    \/ DeleteQueues
    \/ CreateBindings
    \/ DeleteBindings
    \/ Return

EngineSpec == Init /\ [][EngineNext]_vars


\* ------------------------------------------------------------------------
\* The control loop: the scheduler's tick, and an environment that edits the
\* store, perturbs the broker and drops the connection a finite number of times
\* ------------------------------------------------------------------------

\* the names the environment of the loop works with
LoopExchangeNames == {"e1"}
LoopQueueNames == {"q1"}
LoopBindingTriples == {<<"q1", "e1", "a:b">>}

LoopStoreUniverse ==
    { st \in [ ex : SUBSET { r \in ExchangeRowUniverse : r.name \in LoopExchangeNames },
               qs : SUBSET { r \in QueueRowUniverse : r.name \in LoopQueueNames },
               bs : SUBSET { r \in BindingRowUniverse :
                               <<r.queue, r.exchange, r.key>> \in LoopBindingTriples } ] :
        StoreWellFormed(st.ex, st.qs, st.bs) }

LoopBrokerUniverse ==
    { b \in BrokerUniverse :
        /\ b.ex \subseteq BrokerSystemExchanges \cup LoopExchangeNames
        /\ b.qs \subseteq LoopQueueNames
        /\ b.bs \subseteq LoopBindingTriples }

\* the environment may disturb the system once more
Budget == edits + faults < MaxEdits

LoopInit ==
    /\ \E st \in LoopStoreUniverse :
        /\ exchangeRows = st.ex
        /\ queueRows = st.qs
        /\ bindingRows = st.bs
    /\ broker \in LoopBrokerUniverse
    /\ connected = TRUE
    /\ PassIdle
    /\ prev = "none"
    /\ edits = 0
    /\ MainServing
    /\ SideQuiet

\* a tick that finds the provider unhealthy and returns without Connect
TickWithoutReconnect ==
    /\ pc = "idle"
    /\ connected
    /\ pc' = "load"
    /\ origin' = "tick"
    /\ dryRun' = FALSE
    /\ UNCHANGED <<storeVars, broker, connected, expected, actualExchanges,
                   actualQueues, actualBindingsMap, todo, rem, last, result, err,
                   calls, faults, prev, edits>>
    /\ UNCHANGED <<mainVars, sideVars>>

\* a tick without the return after the failed Connect: it goes on to reconcile
TickWithoutReturn ==
    /\ mainPc \in {"serve", "serving"}
    /\ pc = "idle"
    /\ IF connected
       THEN /\ pc' = "load"
            /\ origin' = "tick"
            /\ dryRun' = FALSE
            /\ UNCHANGED <<connected, sessions, edits, prev>>
       ELSE \E ok \in (IF Budget THEN BOOLEAN ELSE {TRUE}) :
                /\ connected' = ok
                /\ sessions' = IF ok THEN sessions + 1 ELSE sessions
                /\ edits' = IF ok THEN edits ELSE edits + 1
                /\ prev' = IF ok THEN "reconnected" ELSE "unreachable"
                /\ IF ok
                   THEN UNCHANGED <<pc, origin, dryRun>>
                   ELSE /\ pc' = "load"
                        /\ origin' = "tick"
                        /\ dryRun' = FALSE
    /\ UNCHANGED <<storeVars, broker, expected, actualExchanges, actualQueues,
                   actualBindingsMap, todo, rem, last, result, err, calls, faults>>
    /\ UNCHANGED <<mainVars, other, cancelled, reply>>

\* Scheduler.Start, the function of "@every 30s": Health; when not OK, Connect,
\* and return if it fails; reconcile only when Health had been OK
Tick ==
    /\ mainPc \in {"serve", "serving"}
    /\ pc = "idle"
    /\ IF connected
       THEN /\ pc' = "load"
            /\ origin' = "tick"
            /\ dryRun' = FALSE
            /\ UNCHANGED <<connected, sessions, edits, prev>>
       ELSE /\ \E ok \in (IF Budget THEN BOOLEAN ELSE {TRUE}) :
                /\ connected' = ok
                /\ sessions' = IF ok THEN sessions + 1 ELSE sessions
                /\ edits' = IF ok THEN edits ELSE edits + 1
                /\ prev' = IF ok THEN "reconnected" ELSE "unreachable"
            /\ UNCHANGED <<pc, origin, dryRun>>
    /\ UNCHANGED <<storeVars, broker, expected, actualExchanges, actualQueues,
                   actualBindingsMap, todo, rem, last, result, err, calls, faults>>
    /\ UNCHANGED <<mainVars, other, cancelled, reply>>

\* an edit of the desired state: rows inserted, soft-deleted or removed
StoreEdit ==
    /\ Budget
    /\ \E st \in LoopStoreUniverse :
        /\ <<st.ex, st.qs, st.bs>> # <<exchangeRows, queueRows, bindingRows>>
        /\ exchangeRows' = st.ex
        /\ queueRows' = st.qs
        /\ bindingRows' = st.bs
    /\ edits' = edits + 1
    /\ UNCHANGED <<broker, connected, passVars, prev>>
    /\ UNCHANGED <<mainVars, sideVars>>

\* somebody else changes the topology of the broker
BrokerPerturb ==
    /\ Budget
    /\ broker' \in LoopBrokerUniverse \ {broker}
    /\ edits' = edits + 1
    /\ UNCHANGED <<storeVars, connected, passVars, prev>>
    /\ UNCHANGED <<mainVars, sideVars>>

\* the AMQP connection closes
Disconnect ==
    /\ Budget
    /\ connected
    /\ connected' = FALSE
    /\ sessions' = sessions - 1
    /\ edits' = edits + 1
    /\ UNCHANGED <<storeVars, broker, passVars, prev>>
    /\ UNCHANGED <<mainVars, other, cancelled, reply>>

LoopNext ==
    \/ Tick
    \/ PassStep
    \/ StoreEdit
    \/ BrokerPerturb
    \/ Disconnect

LoopSpec == LoopInit /\ [][LoopNext]_vars

\* the cron keeps firing and a pass that has started runs on
FairLoopSpec == LoopSpec /\ WF_vars(Tick) /\ WF_vars(PassStep)

\* ------------------------------------------------------------------------
\* Startup: main() with a queue provider configured, from the first Connect
\* to the HTTP server, and the scheduler it starts on the way
\* ------------------------------------------------------------------------

StartupInit ==
    /\ \E st \in LoopStoreUniverse :
        /\ exchangeRows = st.ex
        /\ queueRows = st.qs
        /\ bindingRows = st.bs
    /\ broker \in LoopBrokerUniverse
    /\ connected = FALSE
    /\ PassIdle
    /\ prev = "none"
    /\ edits = 0
    /\ mainPc = "connect"
    /\ attempt = 0
    /\ retryDelay = FirstRetryDelay
    /\ waits = << >>
    /\ mainCalls = {}
    /\ SideQuiet

\* the retry loop with log.Fatalf in place of "continuing anyway"
StartupConnectOrDie ==
    /\ mainPc = "connect"
    /\ attempt < MaxRetries
    /\ \E ok \in BOOLEAN :
        /\ connected' = ok
        /\ sessions' = IF ok THEN sessions + 1 ELSE sessions
        /\ mainPc' = IF ok THEN "declare"
                     ELSE IF attempt < MaxRetries - 1 THEN "sleep"
                     ELSE "exited"
    /\ attempt' = attempt + 1
    /\ UNCHANGED <<storeVars, broker, passVars, prev, edits, retryDelay, waits,
                   mainCalls>>
    /\ UNCHANGED <<other, cancelled, reply>>

\* main, the retry loop: one Connect; break on success, Sleep unless this was
\* the last attempt
StartupConnect ==
    /\ mainPc = "connect"
    /\ attempt < MaxRetries
    /\ \E ok \in BOOLEAN :
        /\ connected' = ok
        /\ sessions' = IF ok THEN sessions + 1 ELSE sessions
        /\ mainPc' = IF ok THEN "declare"
                     ELSE IF attempt < MaxRetries - 1 THEN "sleep"
                     ELSE "declare"
    /\ attempt' = attempt + 1
    /\ UNCHANGED <<storeVars, broker, passVars, prev, edits, retryDelay, waits,
                   mainCalls>>
    /\ UNCHANGED <<other, cancelled, reply>>

\* the Sleep of the retry loop without the cap on retryDelay
StartupSleepUncapped ==
    /\ mainPc = "sleep"
    /\ waits' = Append(waits, retryDelay)
    /\ retryDelay' = retryDelay * 2
    /\ mainPc' = "connect"
    /\ UNCHANGED <<storeVars, broker, connected, passVars, prev, edits, attempt,
                   mainCalls>>
    /\ UNCHANGED sideVars

\* main, the retry loop: time.Sleep(retryDelay), then the doubling with its cap
StartupSleep ==
    /\ mainPc = "sleep"
    /\ waits' = Append(waits, retryDelay)
    /\ retryDelay' = IF retryDelay * 2 > RetryDelayCap THEN RetryDelayCap
                     ELSE retryDelay * 2
    /\ mainPc' = "connect"
    /\ UNCHANGED <<storeVars, broker, connected, passVars, prev, edits, attempt,
                   mainCalls>>
    /\ UNCHANGED sideVars

\* the broker after main has declared every exchange, then every queue, then
\* every binding of the topology, a failed call being logged and passed over
DeclareTopology(b, top) ==
    LET b1 == [b EXCEPT !.ex = @ \cup
                 UNION { Channel(DeclareExchange(b, n)).b.ex : n \in DOMAIN top.Exchanges }]
        b2 == [b1 EXCEPT !.qs = @ \cup
                 UNION { Channel(DeclareQueue(b1, q)).b.qs : q \in Range(top.Queues) }]
    IN  [b2 EXCEPT !.bs = @ \cup
           UNION { Channel(BindQueue(b2, t)).b.bs : t \in Range(top.Bindings) }]

\* the calls main makes to declare the topology, each with its outcome
DeclareCalls(b, top) ==
    LET b1 == [b EXCEPT !.ex = @ \cup
                 UNION { Channel(DeclareExchange(b, n)).b.ex : n \in DOMAIN top.Exchanges }]
        b2 == [b1 EXCEPT !.qs = @ \cup
                 UNION { Channel(DeclareQueue(b1, q)).b.qs : q \in Range(top.Queues) }]
    IN  { Call("DeclareExchange", <<n, top.Exchanges[n]>>, TRUE,
               Channel(DeclareExchange(b, n)).ok) : n \in DOMAIN top.Exchanges }
        \cup { Call("DeclareQueue", <<q>>, TRUE, Channel(DeclareQueue(b1, q)).ok) :
                 q \in Range(top.Queues) }
        \cup { Call("BindQueue", t, FALSE, Channel(BindQueue(b2, t)).ok) :
                 t \in Range(top.Bindings) }

\* StartupDeclare without the check of Health before it
StartupDeclareUnchecked ==
    /\ mainPc = "declare"
    /\ \E failed \in BOOLEAN :
         LET top == LoadTopologyFromDB(exchangeRows, queueRows, bindingRows)
         IN  /\ broker' = IF failed THEN broker ELSE DeclareTopology(broker, top)
             /\ mainCalls' =
                  {Call("LoadTopologyFromDB", << >>, FALSE, ~failed)}
                  \cup (IF failed THEN {} ELSE DeclareCalls(broker, top))
    /\ mainPc' = "schedule"
    /\ UNCHANGED <<storeVars, connected, passVars, prev, edits, attempt,
                   retryDelay, waits>>
    /\ UNCHANGED sideVars

\* main, "Declare topology on startup if configured and connected"
StartupDeclare ==
    /\ mainPc = "declare"
    /\ IF connected
       THEN \E failed \in BOOLEAN :
              LET top == LoadTopologyFromDB(exchangeRows, queueRows, bindingRows)
              IN  /\ broker' = IF failed THEN broker ELSE DeclareTopology(broker, top)
                  /\ mainCalls' =
                       {Call("LoadTopologyFromDB", << >>, FALSE, ~failed)}
                       \cup (IF failed THEN {} ELSE DeclareCalls(broker, top))
       ELSE UNCHANGED <<broker, mainCalls>>
    /\ mainPc' = "schedule"
    /\ UNCHANGED <<storeVars, connected, passVars, prev, edits, attempt,
                   retryDelay, waits>>
    /\ UNCHANGED sideVars

\* main, sched.Start(): "always start, even if not connected"
StartScheduler ==
    /\ mainPc = "schedule"
    /\ mainPc' = "serve"
    /\ UNCHANGED <<storeVars, broker, connected, passVars, prev, edits, attempt,
                   retryDelay, waits, mainCalls>>
    /\ UNCHANGED sideVars

\* main, s.Start(): the HTTP server serves, or its error ends the process
StartServer ==
    /\ mainPc = "serve"
    /\ \E ok \in BOOLEAN : mainPc' = IF ok THEN "serving" ELSE "exited"
    /\ UNCHANGED <<storeVars, broker, connected, passVars, prev, edits, attempt,
                   retryDelay, waits, mainCalls>>
    /\ UNCHANGED sideVars

MainStep ==
    \/ StartupConnect
    \/ StartupSleep
    \/ StartupDeclare
    \/ StartScheduler
    \/ StartServer

StartupNext ==
    \/ MainStep
    \/ Tick
    \/ PassStep

StartupSpec == StartupInit /\ [][StartupNext]_vars

\* main runs on, the cron keeps firing and a pass that has started runs on
FairStartupSpec ==
    StartupSpec /\ WF_vars(MainStep) /\ WF_vars(Tick) /\ WF_vars(PassStep)


\* ------------------------------------------------------------------------
\* The provider called directly: deletes with every answer the management
\* API can give, Connect and Close in any order
\* ------------------------------------------------------------------------

\* the direct calls of a run, and the connections dialled and still open
MaxCalls == 3
MaxSessions == 2

ProviderInit ==
    /\ exchangeRows = {}
    /\ queueRows = {}
    /\ bindingRows = {}
    /\ broker \in BrokerUniverse
    /\ connected \in BOOLEAN
    /\ PassIdle
    /\ prev = "none"
    /\ edits = 0
    /\ MainServing
    /\ SideQuiet

\* Provider.DeleteQueue(name), called by a client of the provider
ProviderDeleteQueue ==
    /\ Len(calls) < MaxCalls
    /\ \E name \in QueueNames :
       \E status \in DeleteReplies(name \in broker.qs) :
          LET out == DeleteQueueReply(broker, name, status)
          IN  /\ broker' = out.b
              /\ reply' = out.reply
              /\ calls' = Append(calls, Call("DeleteQueue", <<name>>, FALSE, out.ok))
    /\ UNCHANGED <<storeVars, connected, pc, origin, dryRun, expected,
                   actualExchanges, actualQueues, actualBindingsMap, todo, rem,
                   last, result, err, faults, prev, edits>>
    /\ UNCHANGED <<mainVars, other, cancelled, sessions>>

\* Provider.DeleteExchange(name), called by a client of the provider
ProviderDeleteExchange ==
    /\ Len(calls) < MaxCalls
    /\ \E name \in StoreExchangeNames \cup BrokerSystemExchanges :
       \E status \in DeleteReplies(name \in broker.ex) :
          LET out == DeleteExchangeReply(broker, name, status)
          IN  /\ broker' = out.b
              /\ reply' = out.reply
              /\ calls' = Append(calls, Call("DeleteExchange", <<name>>, FALSE, out.ok))
    /\ UNCHANGED <<storeVars, connected, pc, origin, dryRun, expected,
                   actualExchanges, actualQueues, actualBindingsMap, todo, rem,
                   last, result, err, faults, prev, edits>>
    /\ UNCHANGED <<mainVars, other, cancelled, sessions>>

\* Provider.Connect: amqp.Dial; on success the new connection is stored in
\* p.conn, whatever p.conn held; on failure p.conn is left as it was
ProviderConnect ==
    /\ sessions < MaxSessions
    /\ \E ok \in BOOLEAN :
        /\ connected' = (connected \/ ok)
        /\ sessions' = IF ok THEN sessions + 1 ELSE sessions
    /\ UNCHANGED <<storeVars, broker, passVars, prev, edits>>
    /\ UNCHANGED <<mainVars, other, cancelled, reply>>

\* Provider.Close: closes the connection p.conn holds
ProviderClose ==
    /\ connected
    /\ connected' = FALSE
    /\ sessions' = sessions - 1
    /\ UNCHANGED <<storeVars, broker, passVars, prev, edits>>
    /\ UNCHANGED <<mainVars, other, cancelled, reply>>

ProviderNext ==
    \/ ProviderDeleteQueue
    \/ ProviderDeleteExchange
    \/ ProviderConnect
    \/ ProviderClose

ProviderSpec == ProviderInit /\ [][ProviderNext]_vars


\* ------------------------------------------------------------------------
\* POST /sync under the Timeout middleware: the handler runs in a goroutine of
\* its own, and the middleware answers 504 when the timer fires first
\* ------------------------------------------------------------------------

\* middleware.Timeout, "case <-time.After(timeout)": the request is aborted
\* with Gateway Timeout and the middleware returns; nothing is sent to the
\* goroutine that runs the handler, and ReconcileTopology takes no context
RequestTimeout ==
    /\ origin = "sync"
    /\ pc \notin {"idle", "done"}
    /\ cancelled = "none"
    /\ cancelled' = pc
    /\ UNCHANGED <<storeVars, broker, connected, passVars, prev, edits>>
    /\ UNCHANGED <<mainVars, other, sessions, reply>>

SyncNext ==
    \/ \E d \in BOOLEAN : Sync(d)
    \/ PassStep
    \/ RequestTimeout

SyncSpec == LoopInit /\ [][SyncNext]_vars


\* ------------------------------------------------------------------------
\* The running service with its goroutines: the cron library runs the function
\* of every tick in a goroutine of its own, the HTTP server runs every request
\* in one; two of them at a time are modelled, each with the locals of its pass
\* ------------------------------------------------------------------------

\* the Go scheduler runs the other goroutine: its pass takes the place of the
\* running one, between two steps
Switch ==
    /\ other # PassState
    /\ other' = PassState
    /\ pc' = other.pc
    /\ origin' = other.origin
    /\ dryRun' = other.dryRun
    /\ expected' = other.expected
    /\ actualExchanges' = other.actualExchanges
    /\ actualQueues' = other.actualQueues
    /\ actualBindingsMap' = other.actualBindingsMap
    /\ todo' = other.todo
    /\ rem' = other.rem
    /\ last' = other.last
    /\ result' = other.result
    /\ err' = other.err
    /\ calls' = other.calls
    /\ faults' = other.faults
    /\ UNCHANGED <<storeVars, broker, connected, prev, edits>>
    /\ UNCHANGED <<mainVars, cancelled, sessions, reply>>

\* Scheduler.Stop: s.c.Stop() ends the loop of the cron, so that no further
\* tick starts, and returns a context that is done when the running jobs are;
\* Stop drops that context and returns at once
SchedulerStop ==
    /\ mainPc = "serving"
    /\ mainPc' = "stopped"
    /\ UNCHANGED <<storeVars, broker, connected, passVars, prev, edits>>
    /\ UNCHANGED <<attempt, retryDelay, waits, mainCalls, sideVars>>

\* the owner after sched.Stop(): qp.Close()
OwnerClose ==
    /\ mainPc = "stopped"
    /\ mainPc' = "closed"
    /\ connected' = FALSE
    /\ sessions' = IF connected THEN sessions - 1 ELSE sessions
    /\ UNCHANGED <<storeVars, broker, passVars, prev, edits>>
    /\ UNCHANGED <<attempt, retryDelay, waits, mainCalls, other, cancelled, reply>>

\* no pass has returned yet: the runs of the service are followed to the end
\* of the passes that start before the first of them returns
FirstPasses == prev = "none"

\* a tick and requests to /sync, each in its goroutine
ServiceNext ==
    \/ FirstPasses /\ Tick
    \/ FirstPasses /\ \E d \in BOOLEAN : Sync(d)
    \/ PassStep
    \/ Switch

ServiceSpec == LoopInit /\ [][ServiceNext]_vars

\* the scheduler and its owner, who stops it and closes the provider
StopNext ==
    \/ Tick
    \/ PassStep
    \/ SchedulerStop
    \/ OwnerClose

StopSpec == LoopInit /\ [][StopNext]_vars


\* ------------------------------------------------------------------------
\* Vocabulary of the properties
\* ------------------------------------------------------------------------

\* the desired topology D of the running pass, as sets
DesiredExchanges == DOMAIN expected.Exchanges
DesiredQueues == Range(expected.Queues)
DesiredBindings == Range(expected.Bindings)

\* the snapshot A of the running pass, as sets
SnapshotExchangeSet == Range(actualExchanges)
SnapshotQueueSet == Range(actualQueues)
SnapshotBindingSet == UNION { actualBindingsMap[q] : q \in DOMAIN actualBindingsMap }

NonSystem(names) == { n \in names : ~isSystemExchange(n) }

ListOps == {"ListExchanges", "ListQueues", "ListBindings"}

MutationOps == {"DeclareExchange", "DeclareQueue", "BindQueue",
                "UnbindQueue", "DeleteQueue", "DeleteExchange"}

CallIndexes(ops) == { i \in 1..Len(calls) : calls[i].op \in ops }

\* the resource a call names: the exchange or queue name, or the binding triple
Target(c) == IF c.op \in {"BindQueue", "UnbindQueue"} THEN c.arg ELSE c.arg[1]

\* the resources the calls of an operation named, and those where it succeeded
Targets(op) == { Target(calls[i]) : i \in CallIndexes({op}) }
TargetsOk(op) == { Target(calls[i]) : i \in { j \in CallIndexes({op}) : calls[j].ok } }

ListFailed(op) == \E i \in CallIndexes({op}) : ~calls[i].ok

\* the pass has returned (result, nil)
Finished == pc = "done" /\ err = "nil"

\* a finished real run in which every provider call succeeded
CleanRealRun == Finished /\ ~dryRun /\ AllCallsOk

SixListsEmpty ==
    /\ result.CreatedExchanges = << >>
    /\ result.CreatedQueues = << >>
    /\ result.CreatedBindings = << >>
    /\ result.DeletedExchanges = << >>
    /\ result.DeletedQueues = << >>
    /\ result.DeletedBindings = << >>

\* the broker, seen through the provider, holds exactly the topology top
\* (system exchanges aside on both sides)
BrokerEquals(top) ==
    /\ ListExchanges(broker) = NonSystem(DOMAIN top.Exchanges)
    /\ ListQueues(broker) = Range(top.Queues)
    /\ broker.bs = Range(top.Bindings)

\* every binding of the topology names a queue and an exchange of the topology
NoDanglingBinding(top) ==
    \A t \in Range(top.Bindings) :
        t[1] \in Range(top.Queues) /\ t[2] \in DOMAIN top.Exchanges

\* the topology names no system exchange
NoSystemExchange(top) == \A n \in DOMAIN top.Exchanges : ~isSystemExchange(n)


\* the plan: the set differences of D and the snapshot A of the running pass
PlanCreateExchanges == DesiredExchanges \ SnapshotExchangeSet
PlanDeleteExchanges == SnapshotExchangeSet \ DesiredExchanges
PlanCreateQueues == DesiredQueues \ SnapshotQueueSet
PlanDeleteQueues == SnapshotQueueSet \ DesiredQueues
PlanCreateBindings == DesiredBindings \ SnapshotBindingSet
PlanDeleteBindings ==
    { t \in SnapshotBindingSet \ DesiredBindings : t[1] \in DesiredQueues }

PlanSize ==
    Cardinality(PlanCreateExchanges) + Cardinality(PlanDeleteExchanges)
    + Cardinality(PlanCreateQueues) + Cardinality(PlanDeleteQueues)
    + Cardinality(PlanCreateBindings) + Cardinality(PlanDeleteBindings)

\* ------------------------------------------------------------------------
\* C1..C10
\* ------------------------------------------------------------------------

\* C1 (convergence of one pass): when a real run has returned and every
\* provider call of it succeeded, the broker's exchanges (system exchanges
\* aside), queues and binding triples are those of D.
C1_Convergence == CleanRealRun => BrokerEquals(expected)

\* C2 (idempotence): a real run with every call succeeding, right after a real
\* run with every call succeeding over the same D, leaves the six lists empty
\* and issues no mutation call.
C2_Idempotence ==
    (CleanRealRun /\ prev = "clean") =>
        (SixListsEmpty /\ CallIndexes(MutationOps) = {})

\* C4 (system-exchange safety): no pass issues DeleteExchange for a system
\* exchange and none is listed in DeletedExchanges, because the snapshot of
\* the exchanges never holds one.
C4_SystemExchangeSafety ==
    /\ \A name \in Targets("DeleteExchange") : ~isSystemExchange(name)
    /\ \A name \in Range(result.DeletedExchanges) : ~isSystemExchange(name)
    /\ \A name \in SnapshotExchangeSet : ~isSystemExchange(name)

\* C4 happens: a pass deleted an extra exchange on a broker that holds system
\* exchanges which D does not name.
C4_Witness ==
    /\ pc = "done"
    /\ ~dryRun
    /\ TargetsOk("DeleteExchange") # {}
    /\ \E name \in broker.ex : isSystemExchange(name) /\ name \notin DesiredExchanges

\* C5 (dry run): a dry-run pass calls nothing but ListExchanges, ListQueues and
\* ListBindings, and no step of it changes the broker.
C5_DryRunLeavesBroker ==
    /\ [](dryRun => CallIndexes(MutationOps) = {})
    /\ [][dryRun => broker' = broker]_vars

\* C5 happens: a dry run has returned a plan that creates and deletes.
C5_Witness ==
    /\ pc = "done"
    /\ dryRun
    /\ result.CreatedExchanges # << >>
    /\ result.CreatedBindings # << >>
    /\ result.DeletedQueues # << >>
    /\ result.DeletedBindings # << >>

\* C6 (dry run = plan): when the snapshot reads succeed, the six lists of a dry
\* run are, as sets, the set differences of D and the broker A; the deleted
\* bindings are those of A not in D whose queue is in D.
C6_DryRunEqualsPlan ==
    (Finished /\ dryRun /\ AllCallsOk) =>
        /\ Range(result.CreatedExchanges) = DesiredExchanges \ ListExchanges(broker)
        /\ Range(result.DeletedExchanges) = ListExchanges(broker) \ DesiredExchanges
        /\ Range(result.CreatedQueues) = DesiredQueues \ broker.qs
        /\ Range(result.DeletedQueues) = broker.qs \ DesiredQueues
        /\ Range(result.CreatedBindings) = DesiredBindings \ broker.bs
        /\ Range(result.DeletedBindings) =
             { t \in broker.bs \ DesiredBindings : t[1] \in DesiredQueues }

\* C6 happens: a dry run over a broker that has one routing key where D has
\* another for the same queue and exchange.
C6_Witness ==
    /\ Finished /\ dryRun /\ AllCallsOk
    /\ \E t \in Range(result.CreatedBindings), u \in Range(result.DeletedBindings) :
          t[1] = u[1] /\ t[2] = u[2] /\ t[3] # u[3]

\* C7 (real run follows the plan): a real run issues one mutation call per
\* item of the plan for its D and its snapshot and no other, and when all of
\* them succeed its six lists are the plan.
C7_RealRunFollowsPlan ==
    (Finished /\ ~dryRun) =>
        /\ Targets("DeclareExchange") = PlanCreateExchanges
        /\ Targets("DeleteExchange") = PlanDeleteExchanges
        /\ Targets("DeclareQueue") = PlanCreateQueues
        /\ Targets("DeleteQueue") = PlanDeleteQueues
        /\ Targets("BindQueue") = PlanCreateBindings
        /\ Targets("UnbindQueue") = PlanDeleteBindings
        /\ Cardinality(CallIndexes(MutationOps)) = PlanSize
        /\ (\A i \in CallIndexes(MutationOps) : calls[i].ok) =>
              /\ Range(result.CreatedExchanges) = PlanCreateExchanges
              /\ Range(result.DeletedExchanges) = PlanDeleteExchanges
              /\ Range(result.CreatedQueues) = PlanCreateQueues
              /\ Range(result.DeletedQueues) = PlanDeleteQueues
              /\ Range(result.CreatedBindings) = PlanCreateBindings
              /\ Range(result.DeletedBindings) = PlanDeleteBindings

\* C7 happens: the scenario S3, a real run whose plan is one binding to create,
\* one queue to delete and one binding to delete, all three succeeding.
C7_Witness ==
    /\ CleanRealRun
    /\ Len(result.CreatedBindings) = 1
    /\ Len(result.DeletedQueues) = 1
    /\ Len(result.DeletedBindings) = 1
    /\ Cardinality(CallIndexes(MutationOps)) = 3

\* the calls of the pass that returned an error
FailedCalls == { i \in 1..Len(calls) : ~calls[i].ok }

\* the queues whose ListBindings call failed in this pass
FailedBindingReads ==
    { calls[i].arg[1] : i \in { j \in CallIndexes({"ListBindings"}) : ~calls[j].ok } }

\* the items are created by this pass: called for, or listed by a dry run
Recreated(items, op, field) ==
    IF dryRun THEN items \subseteq Range(result[field])
    ELSE items \subseteq Targets(op)

\* C8 (snapshot failure tolerance): a failed ListExchanges, ListQueues or
\* ListBindings(q) gives no Go error and a non-empty Errors; when the pass has
\* run to its end the failed shard was taken as empty, nothing of the shard was
\* deleted and every desired resource of the shard was created.
C8_SnapshotFailureTolerance ==
    /\ (\E op \in ListOps : ListFailed(op)) => (err = "nil" /\ result.Errors # << >>)
    /\ Finished =>
        /\ ListFailed("ListExchanges") =>
             /\ actualExchanges = << >>
             /\ Targets("DeleteExchange") = {}
             /\ result.DeletedExchanges = << >>
             /\ Recreated(DesiredExchanges, "DeclareExchange", "CreatedExchanges")
        /\ ListFailed("ListQueues") =>
             /\ actualQueues = << >>
             /\ Targets("DeleteQueue") = {}
             /\ CallIndexes({"ListBindings", "UnbindQueue"}) = {}
             /\ result.DeletedQueues = << >>
             /\ result.DeletedBindings = << >>
             /\ Recreated(DesiredQueues, "DeclareQueue", "CreatedQueues")
             /\ Recreated(DesiredBindings, "BindQueue", "CreatedBindings")
        /\ \A q \in FailedBindingReads :
             /\ q \notin DOMAIN actualBindingsMap
             /\ \A t \in Targets("UnbindQueue") \cup Range(result.DeletedBindings) : t[1] # q
             /\ Recreated({ t \in DesiredBindings : t[1] = q }, "BindQueue", "CreatedBindings")

\* C8 happens: ListBindings failed for a queue that has a binding D lacks; the
\* pass ended leaving that binding alone and bound a desired one of the queue.
C8_Witness ==
    /\ Finished
    /\ ~dryRun
    /\ \E q \in FailedBindingReads :
          /\ \E t \in TargetsOk("BindQueue") : t[1] = q
          /\ \E u \in broker.bs \ DesiredBindings : u[1] = q

\* C9 (load failure): a failed load ends the pass with an error, the six lists
\* (and Errors) empty and no provider call made; the step leaves the broker as
\* it was.
C9_LoadFailure ==
    /\ [](err = "load" => (pc = "done" /\ result = EmptyResult /\ calls = << >>))
    /\ [][(pc = "load" /\ faults' > faults) =>
            (err' = "load" /\ pc' = "done" /\ result' = EmptyResult
             /\ calls' = << >> /\ broker' = broker)]_vars

\* C9 happens: the load failed while the broker differs from the store.
C9_Witness ==
    /\ err = "load"
    /\ pc = "done"
    /\ ListExchanges(broker) # {}
    /\ broker.qs # Range(LoadTopologyFromDB(exchangeRows, queueRows, bindingRows).Queues)

\* C10 (a failed mutation never aborts): Errors has one entry per failed call,
\* a Created/Deleted list of a real run holds the targets of the successful
\* calls and no other, a failed mutation leaves no Go error, and a real run that
\* has ended has attempted every mutation of its plan.
C10_MutationFailureContinues ==
    /\ Len(result.Errors) = Cardinality(FailedCalls)
    /\ (FailedCalls \cap CallIndexes(MutationOps) # {}) => err = "nil"
    /\ ~dryRun =>
        /\ Range(result.CreatedExchanges) = TargetsOk("DeclareExchange")
        /\ Range(result.DeletedExchanges) = TargetsOk("DeleteExchange")
        /\ Range(result.CreatedQueues) = TargetsOk("DeclareQueue")
        /\ Range(result.DeletedQueues) = TargetsOk("DeleteQueue")
        /\ Range(result.CreatedBindings) = TargetsOk("BindQueue")
        /\ Range(result.DeletedBindings) = TargetsOk("UnbindQueue")
    /\ (Finished /\ ~dryRun) =>
        /\ PlanCreateExchanges \subseteq Targets("DeclareExchange")
        /\ PlanDeleteExchanges \subseteq Targets("DeleteExchange")
        /\ PlanCreateQueues \subseteq Targets("DeclareQueue")
        /\ PlanDeleteQueues \subseteq Targets("DeleteQueue")
        /\ PlanCreateBindings \subseteq Targets("BindQueue")
        /\ PlanDeleteBindings \subseteq Targets("UnbindQueue")

\* C10 happens: a mutation failed, a later one of the same step succeeded and a
\* later step still made its call.
C10_Witness ==
    /\ Finished
    /\ ~dryRun
    /\ \E i, j, k \in CallIndexes(MutationOps) :
          /\ i < j /\ j < k
          /\ ~calls[i].ok
          /\ calls[j].op = calls[i].op /\ calls[j].ok
          /\ calls[k].op # calls[i].op

\* the desired topology the store holds now
Desired == LoadTopologyFromDB(exchangeRows, queueRows, bindingRows)

StepOf(op) ==
    CASE op \in ListOps -> 0
      [] op = "DeclareExchange" -> 1
      [] op = "DeleteExchange" -> 2
      [] op = "DeclareQueue" -> 3
      [] op = "DeleteQueue" -> 4
      [] op = "BindQueue" -> 5
      [] op = "UnbindQueue" -> 6

\* C12 (step order): in the calls of one pass every snapshot read precedes
\* every mutation and the mutations come in the order DeclareExchange,
\* DeleteExchange, DeclareQueue, DeleteQueue, BindQueue, UnbindQueue: no call
\* of an earlier step follows a call of a later step.
C12_StepOrder ==
    \A i, j \in 1..Len(calls) :
        i < j => StepOf(calls[i].op) <= StepOf(calls[j].op)

\* C12 happens: a real run has made calls of five of the six mutation steps
\* after its reads.
C12_Witness ==
    /\ Finished
    /\ ~dryRun
    /\ Cardinality({ calls[i].op : i \in CallIndexes(MutationOps) }) >= 5

\* C13 (binding identity is the full triple): with the reads of the snapshot
\* succeeding, a desired binding (q, x, k1) the snapshot lacks, next to a
\* binding (q, x, k2) of the snapshot that is not desired, q desired, is
\* created and the other deleted; a triple on both sides is neither bound nor
\* unbound nor listed, whatever its routing key.
C13_BindingIdentity ==
    (Finished /\ (\A op \in ListOps : ~ListFailed(op))) =>
        /\ \A t \in DesiredBindings \ SnapshotBindingSet,
              u \in SnapshotBindingSet \ DesiredBindings :
              (t[1] = u[1] /\ t[2] = u[2] /\ t[1] \in DesiredQueues) =>
                  IF dryRun
                  THEN /\ t \in Range(result.CreatedBindings)
                       /\ u \in Range(result.DeletedBindings)
                  ELSE /\ t \in Targets("BindQueue")
                       /\ u \in Targets("UnbindQueue")
        /\ \A t \in DesiredBindings \cap SnapshotBindingSet :
              /\ t \notin Targets("BindQueue") \cup Targets("UnbindQueue")
              /\ t \notin Range(result.CreatedBindings) \cup Range(result.DeletedBindings)

\* C13 happens: D has (q1, e1, "a:b") where the broker had (q1, e1, ""), and
\* both have (q2, amq.t, "a:b"); the real run bound the first, unbound the
\* second and left the third alone.
C13_Witness ==
    /\ CleanRealRun
    /\ TargetsOk("BindQueue") = {<<"q1", "e1", "a:b">>}
    /\ TargetsOk("UnbindQueue") = {<<"q1", "e1", "">>}
    /\ <<"q2", "amq.t", "a:b">> \in DesiredBindings \cap SnapshotBindingSet

\* how often x occurs in the sequence
Count(seq, x) == Cardinality({ i \in 1..Len(seq) : seq[i] = x })

DesiredEmpty == DesiredExchanges = {} /\ DesiredQueues = {} /\ DesiredBindings = {}

\* C15 (empty desired topology): a real run over an empty D calls
\* DeleteExchange for every exchange ListExchanges returned and DeleteQueue for
\* every queue ListQueues returned, makes no Declare, Bind or Unbind call and
\* leaves DeletedBindings empty.
C15_EmptyDesired ==
    (Finished /\ ~dryRun /\ DesiredEmpty) =>
        /\ Targets("DeleteExchange") = SnapshotExchangeSet
        /\ Targets("DeleteQueue") = SnapshotQueueSet
        /\ CallIndexes({"DeclareExchange", "DeclareQueue", "BindQueue", "UnbindQueue"}) = {}
        /\ result.DeletedBindings = << >>

\* C15 happens: the scenario of the empty store over a broker with an
\* exchange, a queue and a binding; the run deleted the exchange and the queue.
C15_Witness ==
    /\ CleanRealRun
    /\ DesiredEmpty
    /\ SnapshotBindingSet # {}
    /\ Range(result.DeletedExchanges) = SnapshotExchangeSet
    /\ Range(result.DeletedQueues) = SnapshotQueueSet
    /\ result.DeletedExchanges # << >>

\* C16 (nothing to do): when the reads of the snapshot succeeded and the
\* snapshot has the exchanges, the queues and the binding triples of D, the
\* pass makes no mutation call and its six lists and Errors are empty.
C16_InSync ==
    ( /\ Finished
      /\ \A op \in ListOps : ~ListFailed(op)
      /\ SnapshotExchangeSet = DesiredExchanges
      /\ SnapshotQueueSet = DesiredQueues
      /\ SnapshotBindingSet = DesiredBindings ) =>
        /\ SixListsEmpty
        /\ result.Errors = << >>
        /\ CallIndexes(MutationOps) = {}

\* C16 happens: a pass over a broker that has the exchange, the queue and the
\* binding of D has ended.
C16_Witness ==
    /\ Finished
    /\ ~dryRun
    /\ AllCallsOk
    /\ DesiredBindings # {}
    /\ SnapshotExchangeSet = DesiredExchanges
    /\ SnapshotQueueSet = DesiredQueues
    /\ SnapshotBindingSet = DesiredBindings

\* C17 (every tick reconciles): a tick that finds the provider not healthy and
\* whose Connect succeeds starts a real reconciliation pass in that tick, and
\* every pass a tick starts is a real run begun with a healthy provider.
C17_ReconnectTickReconciles ==
    /\ [][(pc = "idle" /\ ~connected /\ connected') =>
            (pc' = "load" /\ origin' = "tick" /\ ~dryRun')]_vars
    /\ [][(origin # "tick" /\ origin' = "tick") =>
            (connected /\ pc' = "load" /\ ~dryRun')]_vars

\* C18 (a failed reconnect ends the tick): the step of a tick whose Connect
\* fails (the provider stays not healthy, the store and the broker are as they
\* were) starts no pass, reads nothing and calls nothing; and whenever no pass
\* runs the scheduler can tick again.
C18_FailedReconnectEndsTick ==
    /\ [][( /\ pc = "idle"
            /\ ~connected
            /\ edits' = edits + 1
            /\ UNCHANGED <<storeVars, broker>> ) =>
          ( /\ ~connected'
            /\ pc' = "idle"
            /\ origin' = "none"
            /\ expected' = EmptyTopology
            /\ calls' = << >>
            /\ result' = EmptyResult
            /\ UNCHANGED mainVars )]_vars
    /\ []((pc = "idle" /\ mainPc = "serving") => ENABLED Tick)

\* C18 happens: the last tick found the provider down and could not connect.
C18_Witness ==
    /\ prev = "unreachable"
    /\ ~connected
    /\ pc = "idle"
    /\ calls = << >>
    /\ broker.bs # Range(Desired.Bindings)

\* the wait the claim gives for after the i-th failed attempt
BackoffWait(i) ==
    IF FirstRetryDelay * 2^(i - 1) > RetryDelayCap THEN RetryDelayCap
    ELSE FirstRetryDelay * 2^(i - 1)

\* C19 (startup retry): Connect is attempted at most 10 times, only while no
\* attempt has succeeded; after the i-th failed attempt, i = 1..9, main sleeps
\* min(2 * 2^(i-1), 64) seconds, and it does not sleep after the 10th.
C19_StartupBackoff ==
    /\ [](/\ attempt <= MaxRetries
          /\ Len(waits) <= MaxRetries - 1
          /\ \A i \in 1..Len(waits) : waits[i] = BackoffWait(i)
          /\ mainPc = "connect" => (Len(waits) = attempt /\ ~connected)
          /\ mainPc = "sleep" => (Len(waits) = attempt - 1 /\ attempt < MaxRetries)
          /\ mainPc \notin {"connect", "sleep"} => Len(waits) = attempt - 1)
    /\ [][attempt' # attempt =>
            (mainPc = "connect" /\ ~connected /\ attempt' = attempt + 1)]_vars
    /\ [][(mainPc \notin {"connect", "sleep"}) =>
            (attempt' = attempt /\ waits' = waits)]_vars

\* C19 happens: ten attempts have failed and main has slept nine times.
C19_Witness ==
    /\ mainPc = "declare"
    /\ ~connected
    /\ attempt = MaxRetries
    /\ waits = <<2, 4, 8, 16, 32, 64, 64, 64, 64>>

\* the startup loop has given up
StartupExhausted == mainPc = "declare" /\ attempt = MaxRetries /\ ~connected

\* C20 (provider unavailability is not fatal at startup): the process exits
\* nowhere but on the error of its HTTP server; when all 10 attempts failed,
\* main goes on to start the scheduler and the HTTP server, and, unless the
\* server ends the process, a tick connects and a later tick reconciles.
C20_StartupNeverFatal ==
    /\ [][(mainPc # "exited" /\ mainPc' = "exited") => mainPc = "serve"]_vars
    /\ StartupExhausted ~> (mainPc \in {"serving", "exited"})
    /\ StartupExhausted ~>
         (mainPc = "exited" \/ (connected /\ origin = "tick" /\ pc = "done"))

\* C20 happens: the 10 attempts failed, the server serves, a tick connected
\* and the pass of a later tick has bound a desired binding.
C20_Witness ==
    /\ attempt = MaxRetries
    /\ mainPc = "serving"
    /\ prev = "reconnected"
    /\ connected
    /\ origin = "tick"
    /\ Finished
    /\ TargetsOk("BindQueue") # {}

\* ------------------------------------------------------------------------
\* C21..C30
\* ------------------------------------------------------------------------

\* C21 (reconciliation at startup): when main reaches its startup declaration
\* connected and reads the store, the broker equals the desired set (exchanges,
\* system exchanges aside, queues and binding triples) once that step is over,
\* before the scheduler is started, provided no call of the step failed.
C21_StartupReconciles ==
    [][( /\ mainPc = "declare"
         /\ connected
         /\ NoDanglingBinding(Desired)
         /\ NoSystemExchange(Desired)
         /\ broker' = DeclareTopology(broker, Desired) ) =>
       ( /\ mainPc' = "schedule"
         /\ BrokerEquals(Desired)' )]_vars

\* C25 (the engine alone mutates the broker): every step of the service that
\* changes the broker's topology is a step of a running ReconcileTopology pass
\* and records one more call, a mutation, among the calls of that pass.
C25_OnlyEngineMutates ==
    [][broker' # broker =>
         ( /\ pc \notin {"idle", "done"}
           /\ Len(calls') = Len(calls) + 1
           /\ calls'[Len(calls')].op \in MutationOps )]_vars

\* syncTopology, after ReconcileTopology has returned: the status and the
\* envelope of the answer. An error of the pass gives 500 with the error
\* object; otherwise 200 with the six lists of the result, for a dry run and
\* for a real run alike; result.Errors is not read
SyncResponse ==
    IF err # "nil"
    THEN [ status |-> 500, success |-> FALSE, error |-> "RECONCILIATION_ERROR",
           toCreate |-> << >>, toDelete |-> << >> ]
    ELSE [ status |-> 200, success |-> TRUE, error |-> "none",
           toCreate |-> <<result.CreatedExchanges, result.CreatedQueues,
                          result.CreatedBindings>>,
           toDelete |-> <<result.DeletedExchanges, result.DeletedQueues,
                          result.DeletedBindings>> ]

\* C29 (a real /sync with failures answers 500): when the pass of a real
\* /sync has returned with an error, or with entries in result.Errors, the
\* answer has status 500 and does not report success.
C29_SyncFailureIs500 ==
    (pc = "done" /\ origin = "sync" /\ ~dryRun
       /\ (err # "nil" \/ result.Errors # << >>)) =>
    (SyncResponse.status = 500 /\ ~SyncResponse.success)

\* C30 (no system exchange in the desired topology): the topology a pass has
\* loaded names no exchange that is empty or starts with "amq.", and no pass
\* calls DeclareExchange on such a name.
C30_LoaderSkipsSystemExchanges ==
    /\ NoSystemExchange(expected)
    /\ \A n \in Targets("DeclareExchange") : ~isSystemExchange(n)

\* the last direct call of the provider
LastCall == calls[Len(calls)]

\* C27 (provider deletes are idempotent and guarded): DeleteQueue(name) and
\* DeleteExchange(name) return success when the management API answers 404,
\* and success with the resource gone when it answers 204 or 200; they return
\* an error on any other status and when no answer arrives; DeleteExchange on
\* a system exchange returns an error without a request and leaves the
\* exchange; after a successful delete the name is not on the broker.
C27_DeletesIdempotentGuarded ==
    /\ [](calls # << >> =>
            /\ reply = "404" => LastCall.ok
            /\ reply \in {"204", "200"} => LastCall.ok
            /\ reply \in {"401", "500", "error"} => ~LastCall.ok
            /\ LastCall.ok =>
                  Target(LastCall) \notin (broker.ex \cup broker.qs)
            /\ (LastCall.op = "DeleteExchange" /\ isSystemExchange(Target(LastCall))) =>
                  (~LastCall.ok /\ reply = "none"))
    /\ [][calls' # calls =>
            /\ calls'[Len(calls')].ok <=> reply' \in {"404", "204", "200"}
            /\ reply' \notin {"204", "200"} => broker' = broker
            /\ BrokerWellFormed(broker')]_vars

\* C27 happens: a queue was deleted, the same delete was repeated and answered
\* 404, and the delete of a system exchange was refused without a request.
C27_Witness ==
    /\ Len(calls) = 3
    /\ calls[1] = Call("DeleteQueue", <<"q1">>, FALSE, TRUE)
    /\ calls[2] = Call("DeleteQueue", <<"q1">>, FALSE, TRUE)
    /\ calls[3] = Call("DeleteExchange", <<"amq.t">>, FALSE, FALSE)
    /\ reply = "none"
    /\ "q2" \in broker.qs

\* C28 (Connect is idempotent): a Connect on a provider that holds a live
\* session opens no further connection, and the provider never has more than
\* one connection open.
C28_ConnectIdempotent ==
    /\ [](sessions <= 1)
    /\ [][connected => sessions' <= sessions]_vars

\* the step of section 4.4 a pass is in, by its position
PcStep(p) ==
    CASE p \in {"listEx", "listQ", "listB"} -> 0
      [] p = "createEx" -> 1
      [] p = "deleteEx" -> 2
      [] p = "createQ" -> 3
      [] p = "deleteQ" -> 4
      [] p = "createB" -> 5
      [] p = "deleteB" -> 6

\* C26 (a /sync pass honours the cancellation of its request): once the
\* timeout of the request has fired, the pass makes no provider call but those
\* of the step it was in: none at all when it was still loading, none of a
\* later step otherwise.
C26_SyncHonoursCancellation ==
    [][(cancelled # "none" /\ Len(calls') > Len(calls)) =>
         ( /\ cancelled # "load"
           /\ StepOf(calls'[Len(calls')].op) = PcStep(cancelled) )]_vars

\* a tick is executing in the running goroutine, or in the other one
TickRunning ==
    \/ origin = "tick" /\ pc # "idle"
    \/ other.origin = "tick" /\ other.pc # "idle"

\* C22 (Stop waits for the tick in flight): once Stop() has returned no tick is
\* executing and none starts, and no tick makes a provider call, before the
\* owner's Close() and after it.
C22_StopWaitsForTick ==
    /\ [](mainPc \in {"stopped", "closed"} => ~TickRunning)
    /\ [][(mainPc \in {"stopped", "closed"} /\ origin = "tick") =>
            calls' = calls]_vars

\* C23 (ticks never overlap): at most one tick is executing at any time.
C23_TicksNeverOverlap ==
    ~( /\ origin = "tick" /\ pc # "idle"
       /\ other.origin = "tick" /\ other.pc # "idle" )

\* a real pass, the running one or the other one, has returned without error
RealPassDone(p) == p.pc = "done" /\ p.err = "nil" /\ ~p.dryRun

\* C24 (concurrent passes are safe): when a tick and a real /sync over the
\* same store, their steps interleaved in any order, have both completed and
\* every provider call of both succeeded, the broker equals the desired set on
\* exchanges (system exchanges aside), queues and binding triples.
C24_ConcurrentPassesSafe ==
    ( /\ RealPassDone(PassState)
      /\ RealPassDone(other)
      /\ {origin, other.origin} = {"tick", "sync"}
      /\ \A i \in 1..Len(calls) : calls[i].ok
      /\ \A i \in 1..Len(other.calls) : other.calls[i].ok ) =>
    BrokerEquals(Desired)


\* ------------------------------------------------------------------------
\* C31..C40
\* ------------------------------------------------------------------------

\* the extra bindings of the plan whose exchange is extra too
UnbindsOfExtraExchanges == { t \in PlanDeleteBindings : t[2] \in PlanDeleteExchanges }

\* C31 as the specification states it: for an extra binding (q, x, k) on a
\* retained queue whose exchange x is extra too, UnbindQueue(q, x, k) has been
\* called by the time DeleteExchange(x) is.
C31_AsStated ==
    \A i \in CallIndexes({"DeleteExchange"}) :
        \A t \in UnbindsOfExtraExchanges :
            t[2] = Target(calls[i]) =>
                \E j \in 1..(i - 1) : calls[j].op = "UnbindQueue" /\ calls[j].arg = t

\* C31 (deletions and their dependents): for an extra binding (q, x, k) on a
\* retained queue whose exchange x is extra too, DeleteExchange(x) comes before
\* UnbindQueue(q, x, k): no DeleteExchange follows an UnbindQueue, and a real
\* run that has returned with its reads successful has called both.
C31_ExchangeDeletedBeforeUnbind ==
    /\ \A i \in CallIndexes({"UnbindQueue"}) :
          \A j \in CallIndexes({"DeleteExchange"}) : j < i
    /\ (Finished /\ ~dryRun /\ ~\E op \in ListOps : ListFailed(op)) =>
          \A t \in UnbindsOfExtraExchanges :
              /\ t[2] \in Targets("DeleteExchange")
              /\ t \in Targets("UnbindQueue")

\* C31 happens: a real run deleted an extra exchange and afterwards unbound a
\* binding of that exchange from a queue it keeps; both calls succeeded.
C31_Witness ==
    /\ Finished
    /\ ~dryRun
    /\ \E t \in UnbindsOfExtraExchanges :
          /\ t[2] \in TargetsOk("DeleteExchange")
          /\ t \in TargetsOk("UnbindQueue")

\* C32 (only existence is diffed): an exchange or a queue whose name is both
\* desired and in the snapshot is neither declared nor deleted nor listed in
\* the result, whatever kind the store gives the exchange; and every
\* DeclareExchange and DeclareQueue of the engine passes durable = true.
C32_OnlyExistenceDiffed ==
    /\ \A n \in DesiredExchanges \cap SnapshotExchangeSet :
          /\ n \notin Targets("DeclareExchange") \cup Targets("DeleteExchange")
          /\ n \notin Range(result.CreatedExchanges) \cup Range(result.DeletedExchanges)
    /\ \A q \in DesiredQueues \cap SnapshotQueueSet :
          /\ q \notin Targets("DeclareQueue") \cup Targets("DeleteQueue")
          /\ q \notin Range(result.CreatedQueues) \cup Range(result.DeletedQueues)
    /\ \A i \in CallIndexes({"DeclareExchange", "DeclareQueue"}) : calls[i].durable

\* C32 happens: a real run has returned that found a desired exchange and a
\* desired queue on the broker, left both alone, and declared another queue.
C32_Witness ==
    /\ Finished
    /\ ~dryRun
    /\ \E n \in DesiredExchanges \cap SnapshotExchangeSet : n \in broker.ex
    /\ DesiredQueues \cap SnapshotQueueSet # {}
    /\ TargetsOk("DeclareQueue") # {}

\* the desired bindings of the pass whose queue or exchange is not desired
DanglingBindings ==
    { t \in DesiredBindings : t[1] \notin DesiredQueues \/ t[2] \notin DesiredExchanges }

\* C33 (dangling desired bindings are tolerated): the loader hands every
\* active binding row to the engine, dangling or not, without an error; a real
\* run calls BindQueue for every dangling binding the snapshot lacks; a
\* BindQueue that fails leaves an entry in result.Errors and none in
\* CreatedBindings; and the run goes on to the other missing bindings and to
\* the unbinds of step 7.
C33_DanglingBindingsTolerated ==
    /\ (pc \notin {"idle", "load"} /\ err = "nil") =>
          expected.Bindings = Desired.Bindings
    /\ \A i \in CallIndexes({"BindQueue"}) :
          ~calls[i].ok =>
             /\ ErrorEntry("BindQueue", calls[i].arg) \in Range(result.Errors)
             /\ calls[i].arg \notin Range(result.CreatedBindings)
    /\ (Finished /\ ~dryRun) =>
          /\ DanglingBindings \ SnapshotBindingSet \subseteq Targets("BindQueue")
          /\ Targets("BindQueue") = PlanCreateBindings
          /\ Targets("UnbindQueue") = PlanDeleteBindings

\* C33 happens: in a real run without a failure made by the environment, the
\* BindQueue of a dangling binding failed, the BindQueue of another binding
\* succeeded and step 7 unbound an extra binding.
C33_Witness ==
    /\ Finished
    /\ ~dryRun
    /\ faults = 0
    /\ \E i \in CallIndexes({"BindQueue"}) :
          ~calls[i].ok /\ calls[i].arg \in DanglingBindings
    /\ TargetsOk("BindQueue") # {}
    /\ TargetsOk("UnbindQueue") # {}

\* ------------------------------------------------------------------------
\* Termination of a pass

\* the phase of the state machine of a pass that a position belongs to:
\* Loading, Snapshotting, DiffingExchanges, DiffingQueues, DiffingBindings,
\* Reporting
Phase(p) ==
    CASE p = "load" -> 0
      [] p \in {"listEx", "listQ", "listB"} -> 1
      [] p \in {"createEx", "deleteEx"} -> 2
      [] p \in {"createQ", "deleteQ"} -> 3
      [] p \in {"createB", "deleteB"} -> 4
      [] p = "done" -> 5

\* the provider calls a pass can make: the two list calls, one ListBindings
\* per queue of the snapshot, and one call per element of D and of the snapshot
CallBound ==
    2 + Len(actualQueues)
      + Cardinality(DesiredExchanges) + Len(actualExchanges)
      + Len(expected.Queues) + Len(actualQueues)
      + Len(expected.Bindings) + Cardinality(SnapshotBindingSet)

\* passes over the stores and brokers of one exchange, one queue and one
\* binding; the scheduler of goroutines runs a pass that has a step to take
FairPassSpec == LoopInit /\ [][Next]_vars /\ WF_vars(PassStep)

\* C34 (every pass terminates): a pass never makes more provider calls than
\* the sizes of D and of its snapshot allow, never moves to an earlier phase
\* and does not leave before Reporting, and every pass that has started
\* reaches the point where it returns its result.
C34_PassTerminates ==
    /\ [](Len(calls) <= CallBound)
    /\ [][pc \notin {"idle", "done"} =>
            /\ pc' # "idle"
            /\ Phase(pc') >= Phase(pc)]_vars
    /\ (pc # "idle" ~> pc = "done")

\* C34 happens: a real pass reaches Reporting after failed provider calls in
\* the snapshot and in a diffing phase.
C34_Witness ==
    /\ pc = "done"
    /\ ~dryRun
    /\ \E i \in CallIndexes({"ListBindings"}) : ~calls[i].ok
    /\ \E i \in CallIndexes(MutationOps) : ~calls[i].ok
    /\ \E i \in CallIndexes(MutationOps) : calls[i].ok

\* C35 (created and deleted lists are disjoint): at every point of a pass no
\* exchange name is in both CreatedExchanges and DeletedExchanges, no queue
\* name in both CreatedQueues and DeletedQueues and no binding triple in both
\* CreatedBindings and DeletedBindings.
C35_CreatedDeletedDisjoint ==
    /\ Range(result.CreatedExchanges) \cap Range(result.DeletedExchanges) = {}
    /\ Range(result.CreatedQueues) \cap Range(result.DeletedQueues) = {}
    /\ Range(result.CreatedBindings) \cap Range(result.DeletedBindings) = {}

\* C35 happens: a pass returns a result that lists a created and a deleted
\* exchange, a created and a deleted binding, and a queue.
C35_Witness ==
    /\ Finished
    /\ result.CreatedExchanges # << >>
    /\ result.DeletedExchanges # << >>
    /\ result.CreatedBindings # << >>
    /\ result.DeletedBindings # << >>
    /\ result.CreatedQueues \o result.DeletedQueues # << >>

\* the resource belongs to the topology: an exchange name for the exchange
\* calls, a queue name for the queue calls, a triple for the binding calls
InTopology(top, c) ==
    CASE c.op \in {"DeclareExchange", "DeleteExchange"} -> Target(c) \in DOMAIN top.Exchanges
      [] c.op \in {"DeclareQueue", "DeleteQueue"} -> Target(c) \in Range(top.Queues)
      [] c.op \in {"BindQueue", "UnbindQueue"} -> Target(c) \in Range(top.Bindings)

\* the resource is in the snapshot of the pass
InSnapshot(p, c) ==
    CASE c.op = "DeleteExchange" -> Target(c) \in Range(p.actualExchanges)
      [] c.op = "DeleteQueue" -> Target(c) \in Range(p.actualQueues)
      [] c.op = "UnbindQueue" ->
           /\ Target(c)[1] \in DOMAIN p.actualBindingsMap
           /\ Target(c) \in p.actualBindingsMap[Target(c)[1]]

DeleteOps == {"DeleteExchange", "DeleteQueue", "UnbindQueue"}

\* C36 for one pass
TargetsWithinD(p) ==
    \A i \in 1..Len(p.calls) :
        LET c == p.calls[i]
        IN  /\ c.op \in DeleteOps =>
                 /\ ~InTopology(Desired, c)
                 /\ ~InTopology(p.expected, c)
                 /\ InSnapshot(p, c)
            /\ c.op \in MutationOps \ DeleteOps => InTopology(Desired, c)

\* C36 (targets of interleaved passes, D constant): whatever the order of the
\* steps of a tick and of requests to /sync over one store, no DeleteExchange,
\* DeleteQueue or UnbindQueue of either pass names a resource of D, each names
\* a resource of the snapshot of its pass that the desired topology of its
\* pass lacks, and no DeclareExchange, DeclareQueue or BindQueue names a
\* resource outside D.
C36_TargetsWithinD == TargetsWithinD(PassState) /\ TargetsWithinD(other)

\* C36 happens: two real passes have interleaved, both have deleted and both
\* have declared or bound.
C36_Witness ==
    /\ \E i \in 1..Len(calls) : calls[i].op \in DeleteOps
    /\ \E i \in 1..Len(calls) : calls[i].op \in MutationOps \ DeleteOps
    /\ \E i \in 1..Len(other.calls) : other.calls[i].op \in DeleteOps
    /\ \E i \in 1..Len(other.calls) : other.calls[i].op \in MutationOps \ DeleteOps
    /\ pc = "done"
    /\ other.pc = "done"

\* the calls of the pass that read the snapshot and failed
FailedReads(p) == { i \in 1..Len(p.calls) : p.calls[i].op \in ListOps /\ ~p.calls[i].ok }

\* C37 for one pass
DryRunErrors(p) ==
    p.dryRun =>
        /\ \A i \in 1..Len(p.result.Errors) : p.result.Errors[i].op \in ListOps
        /\ Len(p.result.Errors) = Cardinality(FailedReads(p))
        /\ FailedReads(p) = {} => p.result.Errors = << >>

\* C37 (errors of a dry run): at every point of a dry-run pass result.Errors
\* holds entries of ListExchanges, ListQueues and ListBindings only, as many
\* as snapshot reads have failed, and none when every read succeeded.
C37_DryRunErrorsAreReadFailures == DryRunErrors(PassState) /\ DryRunErrors(other)

\* C37 happens: a dry run has returned a plan that creates and deletes after
\* two of its snapshot reads failed.
C37_Witness ==
    /\ pc = "done"
    /\ dryRun
    /\ Cardinality(FailedReads(PassState)) = 2
    /\ result.CreatedExchanges \o result.CreatedQueues \o result.CreatedBindings # << >>
    /\ result.DeletedExchanges \o result.DeletedQueues \o result.DeletedBindings # << >>

\* the entries of the six Created/Deleted lists of the result, counted
SixListsLength ==
    Len(result.CreatedExchanges) + Len(result.DeletedExchanges)
    + Len(result.CreatedQueues) + Len(result.DeletedQueues)
    + Len(result.CreatedBindings) + Len(result.DeletedBindings)

\* the entries of result.Errors that a failed mutation call left
MutationErrors == { i \in 1..Len(result.Errors) : result.Errors[i].op \in MutationOps }

\* the field of the result that lists the successes of the operation
ListOf(op) ==
    CASE op = "DeclareExchange" -> "CreatedExchanges"
      [] op = "DeleteExchange" -> "DeletedExchanges"
      [] op = "DeclareQueue" -> "CreatedQueues"
      [] op = "DeleteQueue" -> "DeletedQueues"
      [] op = "BindQueue" -> "CreatedBindings"
      [] op = "UnbindQueue" -> "DeletedBindings"

\* C38 (accounting of a real run): at every point of a real run the mutation
\* calls made are as many as the entries of the six lists plus the entries of
\* Errors left by mutations; the list of an operation has one entry per call
\* of it that succeeded and Errors one entry per mutation call that failed.
C38_RealRunAccounting ==
    ~dryRun =>
        /\ Cardinality(CallIndexes(MutationOps)) =
              SixListsLength + Cardinality(MutationErrors)
        /\ \A op \in MutationOps :
              Len(result[ListOf(op)]) =
                Cardinality({ i \in CallIndexes({op}) : calls[i].ok })
        /\ Cardinality(MutationErrors) =
              Cardinality({ i \in CallIndexes(MutationOps) : ~calls[i].ok })

\* C38 happens: a real run has returned after mutation calls that succeeded
\* and mutation calls that failed, and a failed snapshot read beside them.
C38_Witness ==
    /\ Finished
    /\ ~dryRun
    /\ SixListsLength >= 2
    /\ Cardinality(MutationErrors) >= 1
    /\ Len(result.Errors) > Cardinality(MutationErrors)

\* main() has not started the scheduler yet
BeforeScheduler == mainPc \in {"connect", "sleep", "declare", "schedule"}

\* C39 (startup without a healthy provider): as long as the scheduler has not
\* been started and the provider is not connected, main has read no topology
\* from the store and called no provider operation, no pass runs, and no
\* step changes the broker; main goes from the check of Health straight to
\* the start of the scheduler.
C39_UnhealthyStartupDeclaresNothing ==
    /\ []((BeforeScheduler /\ ~connected) =>
            (mainCalls = {} /\ pc = "idle" /\ calls = << >>))
    /\ [][(BeforeScheduler /\ ~connected /\ ~connected') => broker' = broker]_vars
    /\ [][(mainPc = "declare" /\ ~connected) =>
            (mainPc' = "schedule" /\ mainCalls' = {})]_vars

\* C39 happens: every attempt of main to connect failed, main declared
\* nothing, and a tick of the scheduler has reconnected and declared an
\* exchange and bound a queue.
C39_Witness ==
    /\ attempt = MaxRetries
    /\ mainCalls = {}
    /\ mainPc \in {"serve", "serving"}
    /\ origin = "tick"
    /\ TargetsOk("DeclareExchange") # {}
    /\ TargetsOk("BindQueue") # {}

\* syncTopology writes its answer with c.JSON when ReconcileTopology has
\* returned to it: the step that ends the pass of a request
HandlerWrites == origin = "sync" /\ pc = "done" /\ pc' = "idle"

\* the Timeout middleware writes 504 to the response of the request
TimeoutWrites == cancelled = "none" /\ cancelled' # "none"

\* C40 (one writer per response): once the timeout branch has written 504,
\* the goroutine of the handler takes no further step and does not write its
\* answer; and 504 is written only for a request whose handler has not
\* finished.
C40_ResponseWrittenOnce ==
    /\ [][(origin = "sync" /\ cancelled # "none") => (pc' = pc /\ ~HandlerWrites)]_vars
    /\ [][TimeoutWrites => (origin = "sync" /\ pc \notin {"idle", "done"})]_vars

====
